---- MODULE Spec2Model ----
(***************************************************************************)
(* Model of the job scheduler, its single worker, the in-memory job-state  *)
(* tracker (src/api/queue.py) and the tiered admission gate                *)
(* (src/api/tier.py, src/api/routers/swap.py), the job routes             *)
(* (src/api/routers/jobs.py) and the standalone service (src/api.py).      *)
(***************************************************************************)
EXTENDS Integers, Sequences, FiniteSets, TLC

\* ---------------------------------------------------------------- bounds
\* enqueue calls made in one behaviour
MaxJobs == 2
\* frames a capture yields at most
MaxFrames == 2
\* enqueue calls that may be in flight at the same time
MaxAdmitters == 2
\* threads start() may create
MaxThreads == 2

VARIABLES
    seq,          \* JobQueue._seq
    job_state,    \* JobQueue._job_state: job id -> dict
    pq,           \* JobQueue._q: the _JobItems in the PriorityQueue
    unfinished,   \* JobQueue._q.unfinished_tasks
    worker,       \* JobQueue._worker: 0 is None, else a thread index
    threads,      \* thread index -> the frame of _run/_process it executes
    inflight,     \* enqueue calls between their first and last statement
    nid,          \* job ids handed out so far (uuid4 is fresh every time)
    files,        \* paths that exist on disk (temp inputs, result files)
    handles,      \* open VideoCapture / VideoWriter handles
    io_log,       \* job id -> what the job's input did: the frames its capture
                  \* yielded and how the processing ended (history)
    last_read,    \* what the poller's latest get_state returned; in the
                  \* standalone service, the job a job_status in progress
                  \* reads and the values it has read so far
    settings,     \* api.config.settings: the daily limits in force
    usage_records,\* the usage_records table: row -> number of such rows
    jobs_db,      \* the jobs table: job id -> row
    now,          \* the UTC clock, in ticks
    response,     \* what the latest request was answered with
    admitted,     \* who was admitted, for which kind and when: admission ->
                  \* number of such admissions (history)
    app,          \* the application that runs: "api" (the package src/api) or
                  \* "standalone" (src/api.py)
    jobs,         \* src/api.py: the jobs dict, job id -> dict
    job_threads,  \* src/api.py: job id -> the frame of _process_video_job its
                  \* thread executes
    last_update,  \* the latest call of JobQueue._update made from outside the
                  \* worker: its job id and keywords (history)
    state_lock,   \* JobQueue._state_lock (in the standalone service,
                  \* JOBS_LOCK): None, or the operation that holds it
    pending,      \* the _update inside its with block: the job id and the
                  \* keywords dict.update has not merged yet (in the standalone
                  \* service, the assignments a with block has not made yet)
    committed,    \* the tracker as it stood when _state_lock was last
                  \* released (history)
    fetched,      \* the job ids a download was answered with the result for
                  \* (history)
    awaiting      \* the calls of swap and swap_video that have passed
                  \* check_usage_limit and are suspended at a later await

qvars == <<seq, job_state, pq, unfinished, worker, threads, inflight, nid,
           files, handles, io_log, last_read>>

\* the state of the standalone application
svars == <<app, jobs, job_threads>>

\* what the callers of the tracker's operations recorded
hvars == <<last_update, state_lock, pending, committed, fetched, awaiting>>

gvars == <<settings, usage_records, jobs_db, now, response, admitted, svars,
           hvars>>

vars == <<qvars, gvars>>

None == "None"

Priorities == {0, 1}
JobIds == 1..MaxJobs
ThreadIds == 1..MaxThreads
\* the job ids the poller asks about
PolledJobs == {1}

\* ------------------------------------------------------------ _JobItem
JobItem(priority, s, job_id) ==
    [priority |-> priority, seq |-> s, job_id |-> job_id]

\* an order that serves the newest job of a priority first
LtNewestFirst(self, other) ==
    IF self.priority # other.priority
    THEN self.priority < other.priority
    ELSE self.seq > other.seq

\* _JobItem.__lt__
Lt(self, other) ==
    IF self.priority # other.priority
    THEN self.priority < other.priority
    ELSE self.seq < other.seq

\* PriorityQueue.get: the item no other item is less than
QueueHead(q) == CHOOSE x \in q : \A y \in q \ {x} : ~Lt(y, x)

\* api.storage.result_path
result_path(job_id, ext) == ToString(job_id) \o ext

\* the temp file swap_video wrote for the job (payload["tmp_in"])
tmp_in(job_id) == "tmp" \o ToString(job_id)

\* ------------------------------------------------------------- tracker
\* the dict the standalone service stores for a new job: processing at once
ProcessingState ==
    [status |-> "processing", total_frames |-> 0, processed_frames |-> 0,
     error |-> None]

\* the dict enqueue stores
QueuedState ==
    [status |-> "queued", total_frames |-> 0, processed_frames |-> 0,
     error |-> None]

\* dict.update(kw)
DictUpdate(d, kw) ==
    [k \in DOMAIN d \cup DOMAIN kw |-> IF k \in DOMAIN kw THEN kw[k] ELSE d[k]]

\* an update that stores the keywords under an id the tracker does not hold
UpdateCreates(js, job_id, kw) ==
    IF job_id \in DOMAIN js
    THEN [js EXCEPT ![job_id] = DictUpdate(js[job_id], kw)]
    ELSE (job_id :> kw) @@ js

\* an update that merges the keywords into every entry of the tracker
UpdateAll(js, job_id, kw) ==
    [j \in DOMAIN js |-> DictUpdate(js[j], kw)]

\* JobQueue._update: the tracker after the call
Update(js, job_id, kw) ==
    IF job_id \in DOMAIN js
    THEN [js EXCEPT ![job_id] = DictUpdate(js[job_id], kw)]
    ELSE js

\* JobQueue.get_state: a copy of the entry; the empty dict stands for the
\* None an absent entry gives
GetState(js, job_id) ==
    IF job_id \in DOMAIN js THEN js[job_id] ELSE <<>>

\* ------------------------------------------------------------ settings
\* api.config.Settings: the size ceilings
max_image_bytes == 10 * 1024 * 1024
max_video_bytes_free == 25 * 1024 * 1024
max_video_bytes_logged_in == 50 * 1024 * 1024
max_video_bytes_premium == 100 * 1024 * 1024

\* api.config.Settings: the daily limits as shipped
anon_image_swaps_per_day == 5
anon_video_swaps_per_day == 1
free_image_swaps_per_day == 10
free_video_swaps_per_day == 3

DefaultSettings ==
    [anon_image_swaps_per_day |-> anon_image_swaps_per_day,
     anon_video_swaps_per_day |-> anon_video_swaps_per_day,
     free_image_swaps_per_day |-> free_image_swaps_per_day,
     free_video_swaps_per_day |-> free_video_swaps_per_day]

\* Settings reads the environment: a deployment may set every daily limit to
\* one of these
OverrideLimits == {-1, 0, 1, 2}

SettingsChoices ==
    {DefaultSettings} \cup
    {[k \in DOMAIN DefaultSettings |-> v] : v \in OverrideLimits}

\* the Retry-After header of the 429, in seconds
RetryAfter == 86400

\* ticks of the clock in one UTC day
TicksPerDay == 1
\* the last tick of the clock
MaxTime == 1
\* submissions admitted in one behaviour
MaxAdmissions == 2

\* ------------------------------------------------------------- callers
\* get_current_user gives a User row or None
NoUser == [id |-> None, tier |-> None]
FreeUser == [id |-> "u1", tier |-> "free"]
PremiumUser == [id |-> "u2", tier |-> "premium"]
Users == {NoUser, FreeUser, PremiumUser}
\* the dlc_session cookie of a request, None when it carries none
Cookies == {None, "s1"}
\* who sends a request: a first contact without cookie, and the same browser
\* (the middleware has set its cookie) anonymous and logged in
Callers ==
    {[user |-> NoUser, cookie |-> None]} \cup
    {[user |-> u, cookie |-> "s1"] : u \in Users}
JobTypes == {"image", "video"}

\* ---------------------------------------------------------------- tier
\* a window that never rolls over
EpochStart(t) == 0

\* check_usage_limit, lines 31-33
today_start(t) == (t \div TicksPerDay) * TicksPerDay

RECURSIVE BagSum(_, _)
\* the number of rows of the table among `rows`
BagSum(table, rows) ==
    IF rows = {} THEN 0
    ELSE LET r == CHOOSE x \in rows : TRUE
         IN  table[r] + BagSum(table, rows \ {r})

\* check_usage_limit, lines 45-49: the count query of a logged-in user
UserCount(table, user, job_type, since) ==
    BagSum(table, {r \in DOMAIN table :
                      /\ r.user_id = user.id
                      /\ r.job_type = job_type
                      /\ r.created_at >= since})

\* check_usage_limit, lines 60-65: the count query of an anonymous session
SessionCount(table, session_id, job_type, since) ==
    BagSum(table, {r \in DOMAIN table :
                      /\ r.session_id = session_id
                      /\ r.user_id = None
                      /\ r.job_type = job_type
                      /\ r.created_at >= since})

\* check_usage_limit, lines 39-44 and 51-55: the limit of the caller
Limit(cfg, user, job_type) ==
    IF user # NoUser
    THEN IF job_type = "image" THEN cfg.free_image_swaps_per_day
                               ELSE cfg.free_video_swaps_per_day
    ELSE IF job_type = "image" THEN cfg.anon_image_swaps_per_day
                               ELSE cfg.anon_video_swaps_per_day

\* the test of line 69 with >= weakened to >
ExceededOffByOne(limit, count) == limit # -1 /\ count > limit

\* check_usage_limit, line 69
Exceeded(limit, count) == limit # -1 /\ count >= limit

\* a request that sends its session cookie whatever the cookie holds
NoSessionNever(cookie) == FALSE

\* check_usage_limit, lines 57-59: `if not session_id`
NoSession(cookie) == cookie = None

\* check_usage_limit, lines 39-67: the count the query of the caller gives
Count(cookie, user, job_type, table, t) ==
    IF user # NoUser
    THEN UserCount(table, user, job_type, today_start(t))
    ELSE SessionCount(table, cookie, job_type, today_start(t))

\* check_usage_limit: TRUE when it raises the 429
check_usage_limit(cookie, user, job_type, cfg, table, t) ==
    IF user # NoUser /\ user.tier = "premium" THEN FALSE
    ELSE IF user = NoUser /\ NoSession(cookie) THEN FALSE
    ELSE Exceeded(Limit(cfg, user, job_type),
                  Count(cookie, user, job_type, table, t))

\* get_max_video_bytes
get_max_video_bytes(user) ==
    IF user = NoUser THEN max_video_bytes_free
    ELSE IF user.tier = "premium" THEN max_video_bytes_premium
    ELSE max_video_bytes_logged_in

NoItem == JobItem(0, 0, 0)
Idle == [pc |-> "unstarted", item |-> NoItem, processed |-> 0]

IsAlive(t) == threads[t].pc \notin {"unstarted", "dead"}

QueueInit ==
    /\ seq = 0
    /\ job_state = <<>>
    /\ pq = {}
    /\ unfinished = 0
    /\ worker = 0
    /\ threads = [t \in ThreadIds |-> Idle]
    /\ inflight = {}
    /\ nid = 0
    /\ files = {}
    /\ handles = {}
    /\ io_log = <<>>
    /\ last_read = [job_id |-> 0, state |-> <<>>]

GateInit ==
    /\ usage_records = <<>>
    /\ jobs_db = <<>>
    /\ now = 0
    /\ response = [status_code |-> 0, detail |-> "", headers |-> <<>>]
    /\ admitted = <<>>
    /\ app = "api"
    /\ jobs = <<>>
    /\ job_threads = <<>>
    /\ last_update = [job_id |-> 0, kw |-> <<>>]
    /\ state_lock = None
    /\ pending = [job_id |-> 0, kw |-> <<>>]
    /\ committed = <<>>
    /\ fetched = {}
    /\ awaiting = {}

Init ==
    /\ QueueInit
    /\ GateInit
    /\ settings = DefaultSettings

\* start without its is_alive test: every call creates a thread
StartGuardMissing == FALSE

\* --------------------------------------------------------------- start
\* JobQueue.start: a live worker makes the call a no-op
StartGuard == worker # 0 /\ IsAlive(worker)

start ==
    IF StartGuard
    THEN UNCHANGED vars
    ELSE /\ \E t \in ThreadIds :
              /\ threads[t].pc = "unstarted"
              /\ \A u \in ThreadIds : u < t => threads[u].pc # "unstarted"
              /\ worker' = t
              /\ threads' = [threads EXCEPT ![t].pc = "get"]
         /\ UNCHANGED gvars
         /\ UNCHANGED <<seq, job_state, pq, unfinished, inflight, nid, files,
                        handles, io_log, last_read>>

\* ------------------------------------------------------------- enqueue
\* what is known of the input of a job that was just admitted: no frame
\* read, no face swapped, the processing not ended
NewLog == [yielded |-> 0, swapped |-> 0, ended |-> ""]

\* enqueue, lines 58-60: the sequence number taken under _lock. The caller
\* (swap_video) has drawn a fresh job id and written the temp input file.
\* a counter step that hands out the value it read: what a second caller gets
\* when the increment of the first is lost
NextSeqStale(s) == IF s = 0 THEN 1 ELSE s

\* enqueue, lines 59-60: self._seq += 1; seq = self._seq, inside _lock
NextSeq(s) == s + 1

EnqueueSeq(priority) ==
    /\ nid < MaxJobs
    /\ Cardinality(inflight) < MaxAdmitters
    /\ nid' = nid + 1
    /\ seq' = NextSeq(seq)
    /\ inflight' = inflight \cup
           {[job_id |-> nid + 1, priority |-> priority, seq |-> NextSeq(seq),
             pc |-> "state"]}
    /\ files' = files \cup {tmp_in(nid + 1)}
    /\ io_log' = (nid + 1 :> NewLog) @@ io_log
    /\ UNCHANGED gvars
    /\ UNCHANGED <<job_state, pq, unfinished, worker, threads, handles,
                   last_read>>

\* an enqueue that goes on to put without having stored the tracker entry
EnqueueStateSkipped(e) ==
    /\ e \in inflight
    /\ e.pc = "state"
    /\ inflight' = (inflight \ {e}) \cup {[e EXCEPT !.pc = "put"]}
    /\ UNCHANGED gvars
    /\ UNCHANGED <<seq, job_state, pq, unfinished, worker, threads, nid, files,
                   handles, io_log, last_read>>

\* enqueue, lines 61-67: the tracker entry stored under _state_lock
EnqueueState(e) ==
    /\ e \in inflight
    /\ e.pc = "state"
    /\ job_state' = (e.job_id :> QueuedState) @@ job_state
    /\ inflight' = (inflight \ {e}) \cup {[e EXCEPT !.pc = "put"]}
    /\ UNCHANGED gvars
    /\ UNCHANGED <<seq, pq, unfinished, worker, threads, nid, files, handles,
                   io_log, last_read>>

\* enqueue, line 68: PriorityQueue.put
EnqueuePut(e) ==
    /\ e \in inflight
    /\ e.pc = "put"
    /\ pq' = pq \cup {JobItem(e.priority, e.seq, e.job_id)}
    /\ unfinished' = unfinished + 1
    /\ inflight' = inflight \ {e}
    /\ UNCHANGED gvars
    /\ UNCHANGED <<seq, job_state, worker, threads, nid, files, handles,
                   io_log, last_read>>

\* -------------------------------------------------------------- worker
\* the exception texts a lazy import, a face analyser, swap_face, the enhancer
\* or VideoWriter.write may raise with
Exceptions == {"exc"}

\* _run without its except clause
CatchesNothing(exc) == FALSE

\* _run, line 89: which exceptions the except clause catches
Catches(exc) == exc \in Exceptions

\* an except clause that records a fixed text instead of str(exc)
HandleExceptionOpaque(js, job_id, exc) ==
    Update(js, job_id, [status |-> "failed", error |-> "Processing failed"])

\* _run, line 90: the tracker after the except clause
HandleException(js, job_id, exc) ==
    Update(js, job_id, [status |-> "failed", error |-> exc])

\* the final update reporting the container's frame count as the processed
\* count
FinalizeWithTotal(js, job_id, processed) ==
    IF processed = 0
    THEN Update(js, job_id,
                [status |-> "failed",
                 error |-> "Video contained no readable frames"])
    ELSE Update(js, job_id,
                [status |-> "done",
                 processed_frames |-> js[job_id].total_frames,
                 result_path |-> result_path(job_id, ".mp4")])

\* a final update that reports done without the path of the result
FinalizeNoReference(js, job_id, processed) ==
    IF processed = 0
    THEN Update(js, job_id,
                [status |-> "failed",
                 error |-> "Video contained no readable frames"])
    ELSE Update(js, job_id,
                [status |-> "done", processed_frames |-> processed])

\* _process, lines 167-172: the tracker after the frame loop has ended
Finalize(js, job_id, processed) ==
    IF processed = 0
    THEN Update(js, job_id,
                [status |-> "failed",
                 error |-> "Video contained no readable frames"])
    ELSE Update(js, job_id,
                [status |-> "done", processed_frames |-> processed,
                 result_path |-> result_path(job_id, ".mp4")])

\* the frame loop without its increment
CountFrameStuck(processed) == processed

\* _process, lines 155-156: the count after one more frame was written
CountFrame(processed) == processed + 1

\* _run, line 92 and back to line 84: the frame of a thread waiting in get
Waiting == [pc |-> "get", item |-> NoItem, processed |-> 0]

\* the writer failure without its return: _process goes on to the frame loop
WriterFailsNoReturn(frame) == [frame EXCEPT !.pc = "loop"]

\* _process, line 125: the writer failure returns to _run
AfterWriterFails(frame) == Waiting

\* a get that leaves the item it returns in the queue
TakenKept(q, item) == q

\* PriorityQueue.get: the queue without the item it returned
Taken(q, item) == q \ {item}

\* _run, line 84: get returns the least item
Get(t) ==
    /\ threads[t].pc = "get"
    /\ pq # {}
    /\ LET item == QueueHead(pq) IN
           /\ pq' = Taken(pq, item)
           /\ threads' = [threads EXCEPT ![t] =
                              [pc |-> "process", item |-> item, processed |-> 0]]
    /\ UNCHANGED gvars
    /\ UNCHANGED <<seq, job_state, unfinished, worker, inflight, nid, files,
                   handles, io_log, last_read>>

\* _run, lines 84-86: get times out on an empty queue and the loop continues
GetTimeout(t) ==
    /\ threads[t].pc = "get"
    /\ pq = {}
    /\ UNCHANGED vars

\* _process, line 97
Begin(t) ==
    /\ threads[t].pc = "process"
    /\ job_state' = Update(job_state, threads[t].item.job_id,
                           [status |-> "processing"])
    /\ threads' = [threads EXCEPT ![t].pc = "open"]
    /\ UNCHANGED gvars
    /\ UNCHANGED <<seq, pq, unfinished, worker, inflight, nid, files, handles,
                   io_log, last_read>>

\* _process, lines 108-111: the capture does not open
OpenFails(t) ==
    /\ threads[t].pc = "open"
    /\ job_state' = Update(job_state, threads[t].item.job_id,
                           [status |-> "failed",
                            error |-> "Could not open target video"])
    /\ unfinished' = unfinished - 1
    /\ threads' = [threads EXCEPT ![t] = Waiting]
    /\ io_log' = [io_log EXCEPT ![threads[t].item.job_id].ended = "noinput"]
    /\ UNCHANGED gvars
    /\ UNCHANGED <<seq, pq, worker, inflight, nid, files, handles, last_read>>

\* _process, lines 108-117: the capture opens and reports its frame count,
\* which the container header gives (0 when it does not know)
OpenCapture(t, total) ==
    /\ threads[t].pc = "open"
    /\ handles' = handles \cup {<<"cap", threads[t].item.job_id>>}
    /\ job_state' = Update(job_state, threads[t].item.job_id,
                           [total_frames |-> total])
    /\ threads' = [threads EXCEPT ![t].pc = "writer"]
    /\ UNCHANGED gvars
    /\ UNCHANGED <<seq, pq, unfinished, worker, inflight, nid, files, io_log,
                   last_read>>

\* _process, lines 119-125: the writer does not open
WriterFails(t) ==
    /\ threads[t].pc = "writer"
    /\ handles' = handles \ {<<"cap", threads[t].item.job_id>>}
    /\ job_state' = Update(job_state, threads[t].item.job_id,
                           [status |-> "failed",
                            error |-> "Failed to create output video writer"])
    /\ unfinished' = unfinished - 1
    /\ threads' = [threads EXCEPT ![t] = AfterWriterFails(threads[t])]
    /\ io_log' = [io_log EXCEPT ![threads[t].item.job_id].ended = "nooutput"]
    /\ UNCHANGED gvars
    /\ UNCHANGED <<seq, pq, worker, inflight, nid, files, last_read>>

\* _process, lines 119-135: the writer opens (and creates the result file)
OpenWriter(t) ==
    /\ threads[t].pc = "writer"
    /\ handles' = handles \cup {<<"writer", threads[t].item.job_id>>}
    /\ files' = files \cup {result_path(threads[t].item.job_id, ".mp4")}
    /\ threads' = [threads EXCEPT ![t].pc = "loop", ![t].processed = 0]
    /\ UNCHANGED gvars
    /\ UNCHANGED <<seq, job_state, pq, unfinished, worker, inflight, nid,
                   io_log, last_read>>

\* a frame loop that calls swap_face once on every frame, face or none
SwapsAlways(n) == 1

\* _process, lines 141-149: the calls of swap_face on a frame in which the
\* analyser found n faces; `if faces:` skips the frame that has none
Swaps(n) == n

\* _process, lines 137-156: one frame read, the n faces found in it swapped,
\* and the frame written
FrameFaces(t, n) ==
    /\ threads[t].pc = "loop"
    /\ io_log[threads[t].item.job_id].yielded < MaxFrames
    /\ io_log' = [io_log EXCEPT ![threads[t].item.job_id] =
                     [@ EXCEPT !.yielded = @ + 1, !.swapped = @ + Swaps(n)]]
    /\ LET processed == CountFrame(threads[t].processed) IN
           /\ threads' = [threads EXCEPT ![t].processed = processed]
           /\ job_state' = Update(job_state, threads[t].item.job_id,
                                  [processed_frames |-> processed])
    /\ UNCHANGED gvars
    /\ UNCHANGED <<seq, pq, unfinished, worker, inflight, nid, files, handles,
                   last_read>>

\* _process, lines 137-156: a frame in which get_one_face finds the face
Frame(t) == FrameFaces(t, 1)

\* _process, lines 137-156: a frame in which get_one_face finds no face
FrameNoFace(t) == FrameFaces(t, 0)

\* _process, lines 137-154 and _run, lines 89-92: a frame is read and the
\* transform (or the write) raises; _process is left by the exception
FrameRaises(t, exc) ==
    /\ threads[t].pc = "loop"
    /\ io_log[threads[t].item.job_id].yielded < MaxFrames
    /\ io_log' = [io_log EXCEPT ![threads[t].item.job_id] =
                     [@ EXCEPT !.yielded = @ + 1, !.ended = "raised"]]
    /\ unfinished' = unfinished - 1
    /\ IF Catches(exc)
       THEN /\ job_state' = HandleException(job_state,
                                            threads[t].item.job_id, exc)
            /\ threads' = [threads EXCEPT ![t] = Waiting]
       ELSE /\ job_state' = job_state
            /\ threads' = [threads EXCEPT ![t].pc = "dead"]
    /\ UNCHANGED gvars
    /\ UNCHANGED <<seq, pq, worker, inflight, nid, files, handles, last_read>>

\* _process, lines 137-139 and 158-172: read reports the end of the input
Finish(t) ==
    /\ threads[t].pc = "loop"
    /\ handles' = handles \ {<<"cap", threads[t].item.job_id>>,
                              <<"writer", threads[t].item.job_id>>}
    /\ files' = files \ {tmp_in(threads[t].item.job_id)}
    /\ job_state' = Finalize(job_state, threads[t].item.job_id,
                             threads[t].processed)
    /\ unfinished' = unfinished - 1
    /\ threads' = [threads EXCEPT ![t] = Waiting]
    /\ io_log' = [io_log EXCEPT ![threads[t].item.job_id].ended = "eof"]
    /\ UNCHANGED gvars
    /\ UNCHANGED <<seq, pq, worker, inflight, nid, last_read>>

\* --------------------------------------------------------------- poller
\* job_status, lines 23-30: the tracker is asked for a job
get_state(job_id) ==
    /\ last_read' = [job_id |-> job_id, state |-> GetState(job_state, job_id)]
    /\ UNCHANGED gvars
    /\ UNCHANGED <<seq, job_state, pq, unfinished, worker, threads, inflight,
                   nid, files, handles, io_log>>

\* the container's frame counts
FrameCounts == 0..MaxFrames

\* the steps of the scheduler: callers of start and enqueue, and the worker
QueueNext ==
    \/ start
    \/ \E p \in Priorities : EnqueueSeq(p)
    \/ \E e \in inflight : EnqueueState(e)
    \/ \E e \in inflight : EnqueuePut(e)
    \/ \E t \in ThreadIds : Get(t)
    \/ \E t \in ThreadIds : GetTimeout(t)
    \/ \E t \in ThreadIds : Begin(t)
    \/ \E t \in ThreadIds : OpenFails(t)
    \/ \E t \in ThreadIds, n \in FrameCounts : OpenCapture(t, n)
    \/ \E t \in ThreadIds : WriterFails(t)
    \/ \E t \in ThreadIds : OpenWriter(t)
    \/ \E t \in ThreadIds : Frame(t)
    \/ \E t \in ThreadIds, exc \in Exceptions : FrameRaises(t, exc)
    \/ \E t \in ThreadIds : Finish(t)

Next ==
    \/ QueueNext
    \/ \E j \in PolledJobs : get_state(j)

Spec == Init /\ [][Next]_vars

\* ------------------------------------------------------------ requests
\* an uploaded image: its length and what cv2.imdecode and the face analyser
\* make of it
GoodImage == [size |-> max_image_bytes, content |-> "face"]
BadImages ==
    {[size |-> max_image_bytes, content |-> c] : c \in {"noface", "garbage"}}
    \cup {[size |-> max_image_bytes + 1, content |-> "face"]}
ImageUploads == {GoodImage} \cup BadImages

\* the length of an uploaded video
VideoUploads ==
    {max_video_bytes_free, max_video_bytes_free + 1,
     max_video_bytes_logged_in, max_video_bytes_logged_in + 1,
     max_video_bytes_premium, max_video_bytes_premium + 1}

\* what the image pipeline of swap does after its checks (lines 79-95)
Faults == {"none", "swap", "enhance", "encode"}

\* the many_faces flag only selects the analyser call that finds the faces
ManyFaces == {FALSE}

AllImageRequests ==
    [job_type : {"image"}, user : Users, cookie : Cookies,
     source : ImageUploads, target : ImageUploads, enhance : BOOLEAN,
     many_faces : ManyFaces, fault : Faults]

AllVideoRequests ==
    [job_type : {"video"}, user : Users, cookie : Cookies,
     source : ImageUploads, target : VideoUploads, enhance : BOOLEAN,
     many_faces : ManyFaces]

\* The requests the quota is exercised with: from every caller, a request
\* that passes every check after the quota check, one with a target over
\* every ceiling, and one that asks for enhancement.
ImageVariants ==
    {[target |-> GoodImage, enhance |-> FALSE],
     [target |-> GoodImage, enhance |-> TRUE],
     [target |-> [size |-> max_image_bytes + 1, content |-> "face"],
      enhance |-> FALSE]}

ImageRequests ==
    {[job_type |-> "image", user |-> c.user, cookie |-> c.cookie,
      source |-> GoodImage, target |-> v.target, enhance |-> v.enhance,
      many_faces |-> FALSE, fault |-> "none"] :
        c \in Callers, v \in ImageVariants}

VideoVariants ==
    {[target |-> max_video_bytes_free, enhance |-> FALSE],
     [target |-> max_video_bytes_free, enhance |-> TRUE],
     [target |-> max_video_bytes_premium + 1, enhance |-> FALSE]}

VideoRequests ==
    {[job_type |-> "video", user |-> c.user, cookie |-> c.cookie,
      source |-> GoodImage, target |-> v.target, enhance |-> v.enhance,
      many_faces |-> FALSE] :
        c \in Callers, v \in VideoVariants}

\* an HTTPException
HTTPException(status_code, detail, headers) ==
    [status_code |-> status_code, detail |-> detail, headers |-> headers]

\* check_usage_limit, lines 70-74
QuotaExceeded(job_type, limit) ==
    HTTPException(429,
                  "Daily " \o job_type \o " swap limit reached ("
                      \o ToString(limit) \o "). Upgrade for unlimited access.",
                  [Retry_After |-> RetryAfter])

Ok == [status_code |-> 200, detail |-> "", headers |-> <<>>]

\* an entitlement test that asks for a login instead of the premium tier
IsLoggedIn(user) == user # NoUser

IsPremium(user) == user # NoUser /\ user.tier = "premium"

\* a size test with > weakened to >=
ExceedsOrEquals(size, max) == size >= max

\* swap lines 48 and 52, swap_video lines 133 and 138: len(...) > max
Exceeds(size, max) == size > max

\* swap_video, lines 139-140
VideoTooLarge(max_video) ==
    HTTPException(400,
                  "Target video exceeds "
                      \o ToString(max_video \div (1024 * 1024)) \o " MB limit",
                  <<>>)

\* swap_video, lines 130-150: the exception the checks raise, or Ok
swap_video_checks(req, cfg, table, t) ==
    IF check_usage_limit(req.cookie, req.user, "video", cfg, table, t)
    THEN QuotaExceeded("video", Limit(cfg, req.user, "video"))
    ELSE IF Exceeds(req.source.size, max_image_bytes)
    THEN HTTPException(400, "Source file exceeds size limit", <<>>)
    ELSE IF Exceeds(req.target, get_max_video_bytes(req.user))
    THEN VideoTooLarge(get_max_video_bytes(req.user))
    ELSE IF req.enhance /\ ~IsPremium(req.user)
    THEN HTTPException(403, "Face enhancement requires a premium subscription",
                       <<>>)
    ELSE IF req.source.content = "garbage"
    THEN HTTPException(400, "Could not decode source image", <<>>)
    ELSE IF req.source.content = "noface"
    THEN HTTPException(400, "No face detected in source image", <<>>)
    ELSE Ok

\* swap, lines 45-95: the exception the checks and the pipeline raise, or Ok
swap_checks(req, cfg, table, t) ==
    IF check_usage_limit(req.cookie, req.user, "image", cfg, table, t)
    THEN QuotaExceeded("image", Limit(cfg, req.user, "image"))
    ELSE IF Exceeds(req.source.size, max_image_bytes)
    THEN HTTPException(400, "Source file exceeds size limit", <<>>)
    ELSE IF Exceeds(req.target.size, max_image_bytes)
    THEN HTTPException(400, "Target file exceeds size limit", <<>>)
    ELSE IF req.enhance /\ ~IsPremium(req.user)
    THEN HTTPException(403, "Face enhancement requires a premium subscription",
                       <<>>)
    ELSE IF req.source.content = "garbage"
    THEN HTTPException(400, "Could not decode source image", <<>>)
    ELSE IF req.target.content = "garbage"
    THEN HTTPException(400, "Could not decode target image", <<>>)
    ELSE IF req.source.content = "noface"
    THEN HTTPException(400, "No face detected in source image", <<>>)
    ELSE IF req.target.content = "noface"
    THEN HTTPException(400, "No face detected in target image", <<>>)
    ELSE IF req.fault = "swap"
    THEN HTTPException(500, "Face swap failed", <<>>)
    ELSE IF req.enhance /\ req.fault = "enhance"
    THEN HTTPException(500, "Face enhancement failed", <<>>)
    ELSE IF req.fault = "encode"
    THEN HTTPException(500, "Failed to encode result image", <<>>)
    ELSE Ok

\* a handler that gives every job the standard priority
PriorityStandard(user) == 1

\* swap line 104, swap_video line 158
Priority(user) == IF IsPremium(user) THEN 0 ELSE 1

\* the Job row a handler adds
JobRow(req, status, path) ==
    [user_id |-> req.user.id, job_type |-> req.job_type, status |-> status,
     priority |-> Priority(req.user), total_frames |-> 0,
     processed_frames |-> 0, error |-> None, result_path |-> path,
     options |-> [many_faces |-> req.many_faces, enhance |-> req.enhance]]

\* the UsageRecord row a handler adds
UsageRow(req, t) ==
    [user_id |-> req.user.id, session_id |-> req.cookie,
     job_type |-> req.job_type, created_at |-> t]

\* a handler that builds the UsageRecord and never adds it to the session
AddRowForgotten(table, row) == table

\* db.add(usage) and the commit: one more such row in the table
AddRow(table, row) ==
    IF row \in DOMAIN table
    THEN [table EXCEPT ![row] = @ + 1]
    ELSE (row :> 1) @@ table

\* a handler that adds its UsageRecord before it raises
OnRejectAdds(table, row) == AddRow(table, row)

\* a handler that raises leaves before db.add: the table as it was
OnReject(table, row) == table

\* one more occurrence of x in the history h
Noted(h, x) ==
    IF x \in DOMAIN h THEN [h EXCEPT ![x] = @ + 1] ELSE (x :> 1) @@ h

\* who is admitted, for which kind and when
Admission(req, t) ==
    [user |-> req.user, cookie |-> req.cookie, job_type |-> req.job_type,
     at |-> t]

\* POST /swap
swap(req) ==
    /\ LET out == swap_checks(req, settings, usage_records, now)
           job_id == nid + 1
       IN  /\ response' = out
           /\ IF out.status_code # 200
              THEN /\ usage_records' = OnReject(usage_records,
                                                UsageRow(req, now))
                   /\ UNCHANGED <<jobs_db, nid, files, admitted>>
              ELSE /\ nid < MaxAdmissions
                   /\ admitted' = Noted(admitted, Admission(req, now))
                   /\ nid' = job_id
                   /\ files' = files \cup {result_path(job_id, ".jpg")}
                   /\ jobs_db' = (job_id :> JobRow(req, "done",
                                                   result_path(job_id, ".jpg")))
                                 @@ jobs_db
                   /\ usage_records' = AddRow(usage_records, UsageRow(req, now))
    /\ UNCHANGED <<settings, now, seq, job_state, pq, unfinished, worker,
                   threads, inflight, handles, io_log, last_read>>
    /\ UNCHANGED svars
    /\ UNCHANGED hvars

\* POST /swap/video, the call of job_queue.enqueue included
swap_video(req) ==
    /\ LET out == swap_video_checks(req, settings, usage_records, now)
           job_id == nid + 1
       IN  IF out.status_code # 200
           THEN /\ response' = out
                /\ usage_records' = OnReject(usage_records,
                                             UsageRow(req, now))
                /\ UNCHANGED <<jobs_db, nid, files, seq, job_state, pq,
                               unfinished, io_log, admitted>>
           ELSE /\ nid < MaxAdmissions
                /\ admitted' = Noted(admitted, Admission(req, now))
                /\ response' = out
                /\ nid' = job_id
                /\ files' = files \cup {tmp_in(job_id)}
                /\ jobs_db' = (job_id :> JobRow(req, "queued", None)) @@ jobs_db
                /\ usage_records' = AddRow(usage_records, UsageRow(req, now))
                /\ seq' = NextSeq(seq)
                /\ job_state' = (job_id :> QueuedState) @@ job_state
                /\ pq' = pq \cup {JobItem(Priority(req.user), NextSeq(seq), job_id)}
                /\ unfinished' = unfinished + 1
                /\ io_log' = (job_id :> NewLog) @@ io_log
    /\ UNCHANGED <<settings, now, worker, threads, inflight, handles,
                   last_read>>
    /\ UNCHANGED svars
    /\ UNCHANGED hvars

\* the clock
Tick ==
    /\ now < MaxTime
    /\ now' = now + 1
    /\ UNCHANGED <<settings, usage_records, jobs_db, response, admitted>>
    /\ UNCHANGED svars
    /\ UNCHANGED hvars
    /\ UNCHANGED qvars

\* the requests of the admission gate, served one after another
GateNext ==
    \/ \E req \in ImageRequests : swap(req)
    \/ \E req \in VideoRequests : swap_video(req)
    \/ Tick

\* a deployment with its limits, before its first request
GateSpecInit ==
    /\ QueueInit
    /\ GateInit
    /\ settings \in SettingsChoices

GateSpec == GateSpecInit /\ [][GateNext]_vars

\* the steps of the worker thread and of the threads inside enqueue
\* The requests the size and entitlement checks are exercised with: from
\* every caller, source and target at their ceilings and one byte over, with
\* and without enhancement.
TierImageRequests ==
    {[job_type |-> "image", user |-> c.user, cookie |-> c.cookie,
      source |-> [size |-> ss, content |-> "face"],
      target |-> [size |-> ts, content |-> "face"], enhance |-> e,
      many_faces |-> FALSE, fault |-> "none"] :
        c \in Callers, ss \in {max_image_bytes, max_image_bytes + 1},
        ts \in {max_image_bytes, max_image_bytes + 1}, e \in BOOLEAN}

TierVideoRequests ==
    {[job_type |-> "video", user |-> c.user, cookie |-> c.cookie,
      source |-> [size |-> ss, content |-> "face"], target |-> ts,
      enhance |-> e, many_faces |-> FALSE] :
        c \in Callers, ss \in {max_image_bytes, max_image_bytes + 1},
        ts \in VideoUploads, e \in BOOLEAN}

TierNext ==
    \/ \E req \in TierImageRequests : swap(req)
    \/ \E req \in TierVideoRequests : swap_video(req)

\* the service with its default limits, its requests served one after another
TierSpec == Init /\ [][TierNext]_vars

\* ------------------------------------------------------------- service
\* The service as deployed: the handlers run on one event loop, so no two
\* calls of enqueue overlap, while the worker thread runs beside them.
ServiceImageRequests ==
    {[job_type |-> "image", user |-> FreeUser, cookie |-> "s1",
      source |-> GoodImage, target |-> GoodImage, enhance |-> FALSE,
      many_faces |-> FALSE, fault |-> "none"]}

ServiceVideoRequests ==
    {[job_type |-> "video", user |-> FreeUser, cookie |-> "s1",
      source |-> GoodImage, target |-> ts, enhance |-> FALSE,
      many_faces |-> FALSE] :
        ts \in {max_video_bytes_logged_in, max_video_bytes_logged_in + 1}}

\* a JSON answer with status 200
Reply(body) ==
    [status_code |-> 200, detail |-> "", headers |-> <<>>, body |-> body]

\* dict.get(k, default)
DictGet(d, k, default) == IF k \in DOMAIN d THEN d[k] ELSE default

\* swap_video, lines 130-172, and enqueue, lines 58-60: the checks, the
\* commit of the rows and the sequence number of the job
swap_video_begin(req) ==
    /\ inflight = {}
    /\ LET out == swap_video_checks(req, settings, usage_records, now)
           job_id == nid + 1
       IN  IF out.status_code # 200
           THEN /\ response' = out
                /\ usage_records' = OnReject(usage_records,
                                             UsageRow(req, now))
                /\ UNCHANGED <<jobs_db, nid, files, seq, inflight, io_log,
                               admitted>>
           ELSE /\ nid < MaxAdmissions
                /\ nid < MaxJobs
                /\ nid' = job_id
                /\ files' = files \cup {tmp_in(job_id)}
                /\ jobs_db' = (job_id :> JobRow(req, "queued", None)) @@ jobs_db
                /\ usage_records' = AddRow(usage_records, UsageRow(req, now))
                /\ admitted' = Noted(admitted, Admission(req, now))
                /\ seq' = NextSeq(seq)
                /\ inflight' = {[job_id |-> job_id,
                                 priority |-> Priority(req.user),
                                 seq |-> NextSeq(seq), pc |-> "state"]}
                /\ io_log' = (job_id :> NewLog) @@ io_log
                /\ UNCHANGED response
    /\ UNCHANGED <<settings, now, job_state, pq, unfinished, worker, threads,
                   handles, last_read>>
    /\ UNCHANGED svars
    /\ UNCHANGED hvars

\* enqueue, line 68, and swap_video, line 181: the item is put and the job
\* id returned
swap_video_end(e) ==
    /\ e \in inflight
    /\ e.pc = "put"
    /\ pq' = pq \cup {JobItem(e.priority, e.seq, e.job_id)}
    /\ unfinished' = unfinished + 1
    /\ inflight' = inflight \ {e}
    /\ response' = Reply([job_id |-> e.job_id])
    /\ UNCHANGED <<settings, usage_records, jobs_db, now, admitted>>
    /\ UNCHANGED svars
    /\ UNCHANGED hvars
    /\ UNCHANGED <<seq, job_state, worker, threads, nid, files, handles,
                   io_log, last_read>>

\* job_status, lines 25-30 and 37-42: the fields of the answer
StatusView(d) ==
    [status |-> d.status,
     total_frames |-> DictGet(d, "total_frames", 0),
     processed_frames |-> DictGet(d, "processed_frames", 0),
     error |-> DictGet(d, "error", None)]

NotFound == HTTPException(404, "Job not found", <<>>)

\* a status handler that asks the tracker only
job_status_tracker_only(job_id, js, db) ==
    LET state == GetState(js, job_id)
    IN  IF state # <<>> THEN Reply(StatusView(state)) ELSE NotFound

\* GET /job/{job_id}: what the handler answers
job_status_answer(job_id, js, db) ==
    LET state == GetState(js, job_id)
    IN  IF state # <<>> THEN Reply(StatusView(state))
        ELSE IF job_id \notin DOMAIN db THEN NotFound
        ELSE Reply(StatusView(db[job_id]))

job_status(job_id) ==
    /\ response' = job_status_answer(job_id, job_state, jobs_db)
    /\ UNCHANGED <<settings, usage_records, jobs_db, now, admitted>>
    /\ UNCHANGED svars
    /\ UNCHANGED hvars
    /\ UNCHANGED qvars

\* job_download, lines 52-54 and 62-64
NotDone(status) ==
    HTTPException(400, "Job is not done (status: " \o status \o ")", <<>>)

FileMissing == HTTPException(500, "Result file missing", <<>>)

\* os.path.splitext(path)[1] of a result path
Extension(path) ==
    IF \E j \in 0..nid : path = result_path(j, ".mp4") THEN ".mp4" ELSE ".jpg"

\* job_download, lines 70-79: the file sent as attachment
FileResponse(path) ==
    [status_code |-> 200, detail |-> "",
     headers |-> [Content_Disposition |->
                      "attachment; filename=result" \o Extension(path)],
     body |-> [path |-> path,
               media_type |-> IF Extension(path) = ".mp4" THEN "video/mp4"
                                                       ELSE "image/jpeg"]]

\* job_download, lines 67-79
SendFile(path, fs) ==
    IF path \notin fs THEN FileMissing ELSE FileResponse(path)

\* x or y
OrElse(x, y) == IF x # None THEN x ELSE y

\* a download handler that asks the tracker whether it holds the job and
\* never which status the job has
job_download_any_status(job_id, js, db, fs) ==
    LET state == GetState(js, job_id)
    IN  IF state # <<>>
        THEN SendFile(OrElse(DictGet(state, "result_path", None),
                             result_path(job_id, ".mp4")), fs)
        ELSE IF job_id \notin DOMAIN db THEN NotFound
        ELSE IF db[job_id].status # "done" THEN NotDone(db[job_id].status)
        ELSE SendFile(OrElse(db[job_id].result_path,
                             result_path(job_id, ".mp4")), fs)

\* GET /job/{job_id}/download: what the handler answers
job_download_answer(job_id, js, db, fs) ==
    LET state == GetState(js, job_id)
    IN  IF state # <<>>
        THEN IF state.status # "done" THEN NotDone(state.status)
             ELSE SendFile(OrElse(DictGet(state, "result_path", None),
                                  result_path(job_id, ".mp4")), fs)
        ELSE IF job_id \notin DOMAIN db THEN NotFound
        ELSE IF db[job_id].status # "done" THEN NotDone(db[job_id].status)
        ELSE SendFile(OrElse(db[job_id].result_path,
                             result_path(job_id, ".mp4")), fs)

job_download(job_id) ==
    /\ response' = job_download_answer(job_id, job_state, jobs_db, files)
    /\ fetched' = IF response'.status_code = 200
                  THEN fetched \cup {job_id} ELSE fetched
    /\ UNCHANGED <<settings, usage_records, jobs_db, now, admitted>>
    /\ UNCHANGED svars
    /\ UNCHANGED <<last_update, state_lock, pending, committed, awaiting>>
    /\ UNCHANGED qvars

WorkerStep ==
    \E t \in ThreadIds :
        \/ Get(t) \/ Begin(t) \/ OpenFails(t) \/ WriterFails(t)
        \/ OpenWriter(t) \/ Frame(t) \/ Finish(t)
        \/ \E n \in FrameCounts : OpenCapture(t, n)
        \/ \E exc \in Exceptions : FrameRaises(t, exc)

EnqueueStep == \E e \in inflight : EnqueueState(e) \/ EnqueuePut(e)

\* The scheduler under the scheduling the program gives it: the application
\* starts the worker at startup (lifespan), a started thread keeps being
\* scheduled, every call into the vision library returns, and a thread
\* inside enqueue reaches its last statement. The poller only reads the
\* tracker and takes no part in it.
FairSpec ==
    /\ Init
    /\ [][QueueNext]_vars
    /\ WF_vars(start) /\ WF_vars(WorkerStep) /\ WF_vars(EnqueueStep)

\* the handlers on their event loop and the worker thread beside them
ServiceNext ==
    \/ start
    \/ WorkerStep
    \/ \E t \in ThreadIds : GetTimeout(t)
    \/ \E req \in ServiceImageRequests : swap(req)
    \/ \E req \in ServiceVideoRequests : swap_video_begin(req)
    \/ \E e \in inflight : EnqueueState(e)
    \/ \E e \in inflight : swap_video_end(e)
    \/ \E j \in PolledJobs : job_status(j)
    \/ \E j \in PolledJobs : job_download(j)

ServiceSpec == Init /\ [][ServiceNext]_vars

\* ------------------------------------------------------ faceless frames
\* the scheduler fed with videos in which some frames show no face
FaceNext ==
    \/ QueueNext
    \/ \E t \in ThreadIds : FrameNoFace(t)

FaceSpec == Init /\ [][FaceNext]_vars

\* ---------------------------------------------------- handlers suspended
\* swap and swap_video are coroutines of one event loop: a call runs until
\* its next await, and other calls run while it is suspended. The count of
\* check_usage_limit (swap line 45, swap_video line 130) and the commit of
\* the UsageRecord (lines 113 and 172) are separated by the awaits of the
\* uploads (lines 47, 51, 132, 137).
\* handler calls suspended between their quota check and their commit
MaxHandlers == 2

\* the requests the suspended handlers are exercised with: every check after
\* the quota check passes
RaceRequests ==
    {[job_type |-> "image", user |-> c.user, cookie |-> "s1",
      source |-> GoodImage, target |-> GoodImage, enhance |-> FALSE,
      many_faces |-> FALSE, fault |-> "none"] : c \in {[user |-> NoUser], [user |-> FreeUser]}}
    \cup
    {[job_type |-> "video", user |-> c.user, cookie |-> "s1",
      source |-> GoodImage, target |-> max_video_bytes_free,
      enhance |-> FALSE, many_faces |-> FALSE] : c \in {[user |-> NoUser], [user |-> FreeUser]}}

\* settings under which check_usage_limit allows every call (line 69)
Unlimited == [k \in DOMAIN DefaultSettings |-> -1]

\* what the handler answers once its quota check has passed: the checks of
\* swap lines 47-95 and swap_video lines 132-150
checks_after_quota(req) ==
    IF req.job_type = "image"
    THEN swap_checks(req, Unlimited, usage_records, now)
    ELSE swap_video_checks(req, Unlimited, usage_records, now)

\* swap line 45, swap_video line 130: check_usage_limit counts the rows
\* committed so far and raises, or returns and the handler suspends at its
\* next await
handler_check(req) ==
    /\ Cardinality(awaiting) < MaxHandlers
    /\ IF check_usage_limit(req.cookie, req.user, req.job_type, settings,
                            usage_records, now)
       THEN /\ response' = QuotaExceeded(req.job_type,
                                         Limit(settings, req.user,
                                               req.job_type))
            /\ UNCHANGED awaiting
       ELSE /\ awaiting' = awaiting \cup
                   {[req |-> req,
                     call |-> CHOOSE n \in 1..MaxHandlers :
                                  \A h \in awaiting : h.call # n]}
            /\ UNCHANGED response
    /\ UNCHANGED <<settings, usage_records, jobs_db, now, admitted, svars,
                   last_update, state_lock, pending, committed, fetched>>
    /\ UNCHANGED qvars

\* swap lines 47-115, swap_video lines 132-181: the handler is resumed, runs
\* its other checks, commits its rows and (a video) enqueues the job
handler_resume(h) ==
    /\ h \in awaiting
    /\ awaiting' = awaiting \ {h}
    /\ LET req == h.req
           out == checks_after_quota(req)
           job_id == nid + 1
       IN  /\ response' = out
           /\ IF out.status_code # 200
              THEN UNCHANGED <<usage_records, jobs_db, admitted, nid, files,
                               seq, job_state, pq, unfinished, io_log>>
              ELSE /\ nid < MaxAdmissions
                   /\ nid' = job_id
                   /\ admitted' = Noted(admitted, Admission(req, now))
                   /\ usage_records' = AddRow(usage_records, UsageRow(req, now))
                   /\ IF req.job_type = "image"
                      THEN /\ files' = files \cup {result_path(job_id, ".jpg")}
                           /\ jobs_db' =
                                  (job_id :> JobRow(req, "done",
                                                    result_path(job_id, ".jpg")))
                                  @@ jobs_db
                           /\ UNCHANGED <<seq, job_state, pq, unfinished,
                                          io_log>>
                      ELSE /\ files' = files \cup {tmp_in(job_id)}
                           /\ jobs_db' = (job_id :> JobRow(req, "queued", None))
                                         @@ jobs_db
                           /\ seq' = NextSeq(seq)
                           /\ job_state' = (job_id :> QueuedState) @@ job_state
                           /\ pq' = pq \cup {JobItem(Priority(req.user),
                                                     NextSeq(seq), job_id)}
                           /\ unfinished' = unfinished + 1
                           /\ io_log' = (job_id :> NewLog) @@ io_log
    /\ UNCHANGED <<settings, now, svars, last_update, state_lock, pending,
                   committed, fetched>>
    /\ UNCHANGED <<worker, threads, inflight, handles, last_read>>

RaceNext ==
    \/ \E req \in RaceRequests : handler_check(req)
    \/ \E h \in awaiting : handler_resume(h)
    \/ Tick

RaceSpec == Init /\ [][RaceNext]_vars

\* ------------------------------------------------------------- restart
\* The process ends and is started again: the module-level JobQueue is built
\* anew by __init__ (lines 40-47, 176), its threads and open handles are
\* gone with the process; the tables of the database and the files on disk
\* stay.
Restart ==
    /\ seq' = 0
    /\ job_state' = <<>>
    /\ pq' = {}
    /\ unfinished' = 0
    /\ worker' = 0
    /\ threads' = [t \in ThreadIds |-> Idle]
    /\ inflight' = {}
    /\ handles' = {}
    /\ UNCHANGED <<nid, files, io_log, last_read>>
    /\ UNCHANGED gvars

RestartNext == ServiceNext \/ Restart

RestartSpec == Init /\ [][RestartNext]_vars

\* ------------------------------------------------ the standalone service
\* src/api.py: one process that keeps its jobs in a dict and runs every
\* video job in a thread of its own.
\* videos uploaded to the standalone service in one behaviour
MaxUploads == 1

\* the job ids a client of the standalone service asks about: the ids handed
\* out and one never handed out
QueryJobs == 0..MaxUploads

MAX_UPLOAD_BYTES == 10 * 1024 * 1024
MAX_VIDEO_BYTES == 100 * 1024 * 1024

\* the file swap_video creates for the result of the job (tmp_out.name)
tmp_out(job_id) == "out" \o ToString(job_id)

\* the requests the standalone service is exercised with: the source image
\* and the length of the target video
StandaloneRequests ==
    {[source |-> s, target |-> ts] :
        s \in {GoodImage, [size |-> MAX_UPLOAD_BYTES + 1, content |-> "face"],
               [size |-> MAX_UPLOAD_BYTES, content |-> "noface"]},
        ts \in {MAX_VIDEO_BYTES, MAX_VIDEO_BYTES + 1}}

\* api.py swap_video, lines 544-555: the exception the checks raise, or Ok
standalone_swap_video_checks(req) ==
    IF req.source.size > MAX_UPLOAD_BYTES
    THEN HTTPException(400, "Source file exceeds 10 MB limit", <<>>)
    ELSE IF req.target > MAX_VIDEO_BYTES
    THEN HTTPException(400, "Target video exceeds 100 MB limit", <<>>)
    ELSE IF req.source.content = "garbage"
    THEN HTTPException(400, "Could not decode source image", <<>>)
    ELSE IF req.source.content = "noface"
    THEN HTTPException(400, "No face detected in source image", <<>>)
    ELSE Ok

\* api.py swap_video, lines 566-575: the dict stored for a new job
NewJob(job_id, t) ==
    [status |-> "processing", total_frames |-> 0, processed_frames |-> 0,
     error |-> None, tmp_in |-> tmp_in(job_id), tmp_out |-> tmp_out(job_id),
     created_at |-> t, finished_at |-> None]

\* api.py swap_video, lines 537-584
standalone_swap_video(req) ==
    /\ app = "standalone"
    /\ LET out == standalone_swap_video_checks(req)
           job_id == nid + 1
       IN  IF out.status_code # 200
           THEN /\ response' = out
                /\ UNCHANGED <<nid, files, jobs, job_threads, io_log>>
           ELSE /\ nid < MaxUploads
                /\ nid' = job_id
                /\ files' = files \cup {tmp_in(job_id), tmp_out(job_id)}
                /\ jobs' = (job_id :> NewJob(job_id, now)) @@ jobs
                /\ job_threads' = (job_id :> [pc |-> "open", processed |-> 0])
                                      @@ job_threads
                /\ io_log' = (job_id :> [yielded |-> 0, ended |-> ""]) @@ io_log
                /\ response' = Reply([job_id |-> job_id])
    /\ UNCHANGED <<settings, usage_records, jobs_db, now, admitted, app>>
    /\ UNCHANGED hvars
    /\ UNCHANGED <<seq, job_state, pq, unfinished, worker, threads, inflight,
                   handles, last_read>>

\* what a step of a job thread leaves alone
ThreadFrame ==
    /\ UNCHANGED <<settings, usage_records, jobs_db, now, response, admitted,
                   app>>
    /\ UNCHANGED hvars
    /\ UNCHANGED <<seq, job_state, pq, unfinished, worker, threads, inflight,
                   nid, files, last_read>>

\* a job thread that writes to its entry of the dict; the entry is gone
\* (KeyError) once a download popped it, which only happens after the thread
\* has returned
SetJob(j, kw) == jobs' = [jobs EXCEPT ![j] = DictUpdate(jobs[j], kw)]

\* _process_video_job, lines 379-384: the capture does not open
JobOpenFails(j) ==
    /\ job_threads[j].pc = "open"
    /\ SetJob(j, [status |-> "failed",
                  error |-> "Could not open target video"])
    /\ job_threads' = [job_threads EXCEPT ![j].pc = "returned"]
    /\ io_log' = [io_log EXCEPT ![j].ended = "noinput"]
    /\ UNCHANGED handles
    /\ ThreadFrame

\* _process_video_job, lines 379-392: the capture opens
JobOpenCapture(j, total) ==
    /\ job_threads[j].pc = "open"
    /\ handles' = handles \cup {<<"cap", j>>}
    /\ SetJob(j, [total_frames |-> total])
    /\ job_threads' = [job_threads EXCEPT ![j].pc = "writer"]
    /\ UNCHANGED io_log
    /\ ThreadFrame

\* _process_video_job, lines 394-401: the writer does not open
JobWriterFails(j) ==
    /\ job_threads[j].pc = "writer"
    /\ handles' = handles \ {<<"cap", j>>}
    /\ SetJob(j, [status |-> "failed",
                  error |-> "Failed to create output video writer"])
    /\ job_threads' = [job_threads EXCEPT ![j].pc = "returned"]
    /\ io_log' = [io_log EXCEPT ![j].ended = "nooutput"]
    /\ ThreadFrame

\* _process_video_job, lines 394-411: the writer opens
JobOpenWriter(j) ==
    /\ job_threads[j].pc = "writer"
    /\ handles' = handles \cup {<<"writer", j>>}
    /\ job_threads' = [job_threads EXCEPT ![j].pc = "loop",
                                          ![j].processed = 0]
    /\ UNCHANGED <<jobs, io_log>>
    /\ ThreadFrame

\* _process_video_job, lines 412-434: one frame read, transformed, written
JobFrame(j) ==
    /\ job_threads[j].pc = "loop"
    /\ io_log[j].yielded < MaxFrames
    /\ io_log' = [io_log EXCEPT ![j].yielded = @ + 1]
    /\ LET processed == job_threads[j].processed + 1 IN
           /\ job_threads' = [job_threads EXCEPT ![j].processed = processed]
           /\ SetJob(j, [processed_frames |-> processed])
    /\ UNCHANGED handles
    /\ ThreadFrame

\* _process_video_job, lines 412-430 and 450-453: a frame is read and the
\* transform (or the write) raises
JobFrameRaises(j, exc) ==
    /\ job_threads[j].pc = "loop"
    /\ io_log[j].yielded < MaxFrames
    /\ io_log' = [io_log EXCEPT ![j] =
                     [yielded |-> @.yielded + 1, ended |-> "raised"]]
    /\ SetJob(j, [status |-> "failed", error |-> exc])
    /\ job_threads' = [job_threads EXCEPT ![j].pc = "returned"]
    /\ UNCHANGED handles
    /\ ThreadFrame

\* _process_video_job, lines 413-415 and 436-448: read reports the end of
\* the input
JobFinish(j) ==
    /\ job_threads[j].pc = "loop"
    /\ handles' = handles \ {<<"cap", j>>, <<"writer", j>>}
    /\ IF job_threads[j].processed = 0
       THEN SetJob(j, [status |-> "failed",
                       error |-> "Video contained no readable frames"])
       ELSE SetJob(j, [processed_frames |-> job_threads[j].processed,
                       status |-> "done", finished_at |-> now])
    /\ job_threads' = [job_threads EXCEPT ![j].pc = "returned"]
    /\ io_log' = [io_log EXCEPT ![j].ended = "eof"]
    /\ ThreadFrame

\* dict.get(job_id): the empty dict stands for None
JobsGet(d, job_id) == IF job_id \in DOMAIN d THEN d[job_id] ELSE <<>>

\* api.py job_status, lines 587-598
standalone_job_status_answer(job_id, d) ==
    LET job == JobsGet(d, job_id)
    IN  IF job = <<>> THEN NotFound ELSE Reply(StatusView(job))

standalone_job_status(job_id) ==
    /\ app = "standalone"
    /\ response' = standalone_job_status_answer(job_id, jobs)
    /\ UNCHANGED <<settings, usage_records, jobs_db, now, admitted, svars>>
    /\ UNCHANGED hvars
    /\ UNCHANGED qvars

\* api.py job_download, lines 627-631
StreamingResponse(path) ==
    [status_code |-> 200, detail |-> "",
     headers |-> [Content_Disposition |-> "attachment; filename=result.mp4"],
     body |-> [path |-> path, media_type |-> "video/mp4"]]

\* api.py job_download, lines 603-615 and 627-631: what the handler answers
standalone_job_download_answer(job_id, d, fs) ==
    LET job == JobsGet(d, job_id)
    IN  IF job = <<>> THEN NotFound
        ELSE IF job.status # "done" THEN NotDone(job.status)
        ELSE IF job.tmp_out \notin fs THEN FileMissing
        ELSE StreamingResponse(job.tmp_out)

\* a download that leaves the job in the dict
PopKept(d, job_id) == d

\* dict.pop(job_id, None)
Pop(d, job_id) == [k \in DOMAIN d \ {job_id} |-> d[k]]

\* api.py job_download, lines 601-631: the handler has no await after the
\* body of the request is read, so no other handler runs inside it
standalone_job_download(job_id) ==
    /\ app = "standalone"
    /\ LET out == standalone_job_download_answer(job_id, jobs, files)
       IN  /\ response' = out
           /\ IF out.status_code = 200
              THEN /\ files' = files \ {jobs[job_id].tmp_in,
                                        jobs[job_id].tmp_out}
                   /\ jobs' = Pop(jobs, job_id)
                   /\ fetched' = fetched \cup {job_id}
              ELSE UNCHANGED <<files, jobs, fetched>>
    /\ UNCHANGED <<settings, usage_records, jobs_db, now, admitted, app,
                   job_threads>>
    /\ UNCHANGED <<last_update, state_lock, pending, committed, awaiting>>
    /\ UNCHANGED <<seq, job_state, pq, unfinished, worker, threads, inflight,
                   nid, handles, io_log, last_read>>

JobThreadStep ==
    \E j \in DOMAIN job_threads :
        \/ JobOpenFails(j) \/ JobWriterFails(j) \/ JobOpenWriter(j)
        \/ JobFrame(j) \/ JobFinish(j)
        \/ \E n \in FrameCounts : JobOpenCapture(j, n)
        \/ \E exc \in Exceptions : JobFrameRaises(j, exc)

StandaloneNext ==
    \/ \E req \in StandaloneRequests : standalone_swap_video(req)
    \/ JobThreadStep
    \/ \E j \in QueryJobs : standalone_job_status(j)
    \/ \E j \in QueryJobs : standalone_job_download(j)

\* Either application, chosen when it is deployed: the package with its
\* queue, worker and tables, or the standalone service.
FetchInit ==
    /\ QueueInit
    /\ settings = DefaultSettings
    /\ usage_records = <<>>
    /\ jobs_db = <<>>
    /\ now = 0
    /\ response = [status_code |-> 0, detail |-> "", headers |-> <<>>]
    /\ admitted = <<>>
    /\ app \in {"api", "standalone"}
    /\ jobs = <<>>
    /\ job_threads = <<>>
    /\ last_update = [job_id |-> 0, kw |-> <<>>]
    /\ state_lock = None
    /\ pending = [job_id |-> 0, kw |-> <<>>]
    /\ committed = <<>>
    /\ fetched = {}
    /\ awaiting = {}

FetchNext ==
    \/ app = "api" /\ start
    \/ app = "api" /\ WorkerStep
    \/ app = "api" /\ \E t \in ThreadIds : GetTimeout(t)
    \/ app = "api" /\ \E req \in ServiceImageRequests : swap(req)
    \/ app = "api" /\ \E req \in ServiceVideoRequests : swap_video_begin(req)
    \/ app = "api" /\ \E e \in inflight : EnqueueState(e)
    \/ app = "api" /\ \E e \in inflight : swap_video_end(e)
    \/ app = "api" /\ \E j \in PolledJobs : job_status(j)
    \/ app = "api" /\ \E j \in PolledJobs : job_download(j)
    \/ StandaloneNext

FetchSpec == FetchInit /\ [][FetchNext]_vars

\* ------------------------------------- the standalone service, statement
\* by statement
\* _process_video_job is a thread of its own and job_status runs on the
\* thread of the event loop: between two statements of one the other may
\* run. job_status holds JOBS_LOCK only for jobs.get (lines 589-590), which
\* gives the dict of the job itself and no copy, and reads the four values
\* of its answer afterwards (lines 593-598).
\* the assignments of a failure block, in the order of lines 382-383,
\* 399-400, 441-442 and 452-453
FailedBlock(error) ==
    <<[key |-> "status", value |-> "failed"], [key |-> "error", value |-> error]>>

\* the assignments of lines 446-448
DoneBlock(processed, t) ==
    <<[key |-> "processed_frames", value |-> processed],
      [key |-> "status", value |-> "done"],
      [key |-> "finished_at", value |-> t]>>

\* what a statement of the standalone service leaves alone
StatementFrame ==
    /\ UNCHANGED <<settings, usage_records, jobs_db, now, admitted, app,
                   last_update, committed, fetched, awaiting>>
    /\ UNCHANGED <<seq, job_state, pq, unfinished, worker, threads, inflight,
                   nid, files>>

\* `with JOBS_LOCK:` of a block of several assignments is entered
BlockBegin(j, block) ==
    /\ state_lock = None
    /\ state_lock' = "thread"
    /\ pending' = [job_id |-> j, kw |-> block]
    /\ job_threads' = [job_threads EXCEPT ![j].pc = "block"]
    /\ UNCHANGED <<jobs, response, last_read>>
    /\ StatementFrame

\* _process_video_job, lines 379-381: the capture does not open
JobOpenFailsBegin(j) ==
    /\ job_threads[j].pc = "open"
    /\ BlockBegin(j, FailedBlock("Could not open target video"))
    /\ io_log' = [io_log EXCEPT ![j].ended = "noinput"]
    /\ UNCHANGED handles

\* _process_video_job, lines 394-398: the writer does not open
JobWriterFailsBegin(j) ==
    /\ job_threads[j].pc = "writer"
    /\ BlockBegin(j, FailedBlock("Failed to create output video writer"))
    /\ handles' = handles \ {<<"cap", j>>}
    /\ io_log' = [io_log EXCEPT ![j].ended = "nooutput"]

\* _process_video_job, lines 412-430 and 450-451: the transform raises
JobFrameRaisesBegin(j, exc) ==
    /\ job_threads[j].pc = "loop"
    /\ io_log[j].yielded < MaxFrames
    /\ BlockBegin(j, FailedBlock(exc))
    /\ io_log' = [io_log EXCEPT ![j] =
                     [yielded |-> @.yielded + 1, ended |-> "raised"]]
    /\ UNCHANGED handles

\* _process_video_job, lines 413-415, 436-440 and 445: the input has ended
JobFinishBegin(j) ==
    /\ job_threads[j].pc = "loop"
    /\ BlockBegin(j, IF job_threads[j].processed = 0
                      THEN FailedBlock("Video contained no readable frames")
                      ELSE DoneBlock(job_threads[j].processed, now))
    /\ handles' = handles \ {<<"cap", j>>, <<"writer", j>>}
    /\ io_log' = [io_log EXCEPT ![j].ended = "eof"]

\* one assignment `jobs[job_id][key] = value` of the block
JobAssign(j) ==
    /\ state_lock = "thread"
    /\ pending.job_id = j
    /\ pending.kw # <<>>
    /\ jobs' = [jobs EXCEPT ![j] =
                   DictUpdate(@, Head(pending.kw).key :> Head(pending.kw).value)]
    /\ pending' = [pending EXCEPT !.kw = Tail(@)]
    /\ UNCHANGED <<state_lock, job_threads, response, last_read, handles,
                   io_log>>
    /\ StatementFrame

\* the with block is left and the thread returns
JobBlockEnd(j) ==
    /\ state_lock = "thread"
    /\ pending.job_id = j
    /\ pending.kw = <<>>
    /\ state_lock' = None
    /\ pending' = [job_id |-> 0, kw |-> <<>>]
    /\ job_threads' = [job_threads EXCEPT ![j].pc = "returned"]
    /\ UNCHANGED <<jobs, response, last_read, handles, io_log>>
    /\ StatementFrame

\* the keys job_status reads, in the order of lines 594-597
StatusKeys == <<"status", "total_frames", "processed_frames", "error">>

\* api.py job_status, lines 589-592: jobs.get under JOBS_LOCK
StatusBegin(job_id) ==
    /\ state_lock = None
    /\ last_read.job_id = 0
    /\ IF job_id \notin DOMAIN jobs
       THEN /\ response' = NotFound
            /\ UNCHANGED last_read
       ELSE /\ last_read' = [job_id |-> job_id, state |-> <<>>]
            /\ UNCHANGED response
    /\ UNCHANGED <<jobs, job_threads, state_lock, pending, handles, io_log>>
    /\ StatementFrame

\* api.py job_status, lines 593-598: the next value of the answer is read
\* from the dict of the job; with the last one the answer is returned
StatusRead ==
    /\ last_read.job_id # 0
    /\ LET k == StatusKeys[Cardinality(DOMAIN last_read.state) + 1]
           got == (k :> jobs[last_read.job_id][k]) @@ last_read.state
       IN  IF Cardinality(DOMAIN got) = Len(StatusKeys)
           THEN /\ response' = Reply(got)
                /\ last_read' = [job_id |-> 0, state |-> <<>>]
           ELSE /\ last_read' = [last_read EXCEPT !.state = got]
                /\ UNCHANGED response
    /\ UNCHANGED <<jobs, job_threads, state_lock, pending, handles, io_log>>
    /\ StatementFrame

SnapshotInit == FetchInit /\ app = "standalone"

SnapshotNext ==
    \/ \E req \in StandaloneRequests : standalone_swap_video(req)
    \/ \E j \in DOMAIN job_threads, n \in FrameCounts :
           state_lock = None /\ JobOpenCapture(j, n)
    \/ \E j \in DOMAIN job_threads : state_lock = None /\ JobOpenWriter(j)
    \/ \E j \in DOMAIN job_threads : state_lock = None /\ JobFrame(j)
    \/ \E j \in DOMAIN job_threads : JobOpenFailsBegin(j)
    \/ \E j \in DOMAIN job_threads : JobWriterFailsBegin(j)
    \/ \E j \in DOMAIN job_threads, exc \in Exceptions :
           JobFrameRaisesBegin(j, exc)
    \/ \E j \in DOMAIN job_threads : JobFinishBegin(j)
    \/ \E j \in DOMAIN job_threads : JobAssign(j)
    \/ \E j \in DOMAIN job_threads : JobBlockEnd(j)
    \/ \E j \in QueryJobs : StatusBegin(j)
    \/ StatusRead

SnapshotSpec == SnapshotInit /\ [][SnapshotNext]_vars

\* -------------------------------------------------- the tracker on its own
\* JobQueue._update as a function of the tracker it is called on: the
\* trackers it may meet, the ids it may be given, and the keywords it is
\* called with.
EntryChoices ==
    {QueuedState,
     DictUpdate(QueuedState, [status |-> "processing"]),
     DictUpdate(QueuedState, [status |-> "failed", error |-> "exc"])}

Trackers == UNION {[S -> EntryChoices] : S \in SUBSET JobIds}

\* the ids of the jobs and an id no job has
UpdateIds == JobIds \cup {0}

\* _process lines 97 and 156, _run line 90
UpdateKeywords ==
    {[status |-> "processing"],
     [processed_frames |-> 1],
     [status |-> "failed", error |-> "exc"]}

UpdateInit ==
    /\ job_state \in Trackers
    /\ seq = 0
    /\ pq = {}
    /\ unfinished = 0
    /\ worker = 0
    /\ threads = [t \in ThreadIds |-> Idle]
    /\ inflight = {}
    /\ nid = 0
    /\ files = {}
    /\ handles = {}
    /\ io_log = <<>>
    /\ last_read = [job_id |-> 0, state |-> <<>>]
    /\ GateInit
    /\ settings = DefaultSettings

\* JobQueue._update, lines 75-78
update(job_id, kw) ==
    /\ job_state' = Update(job_state, job_id, kw)
    /\ last_update' = [job_id |-> job_id, kw |-> kw]
    /\ UNCHANGED <<settings, usage_records, jobs_db, now, response, admitted,
                   svars, state_lock, pending, committed, fetched,
                   awaiting>>
    /\ UNCHANGED <<seq, pq, unfinished, worker, threads, inflight, nid, files,
                   handles, io_log, last_read>>

UpdateNext == \E job_id \in UpdateIds, kw \in UpdateKeywords : update(job_id, kw)

UpdateSpec == UpdateInit /\ [][UpdateNext]_vars

\* ----------------------------------------------- the tracker and its lock
\* get_state and _update with the with blocks of lines 72 and 76 spelled
\* out: dict.update merges the keywords one by one while _state_lock is
\* held, and get_state copies the entry while it holds the same lock.
MergeKeywords ==
    {[status |-> "processing"],
     [status |-> "failed", error |-> "exc"],
     [status |-> "done", processed_frames |-> 1,
      result_path |-> result_path(1, ".mp4")]}

LockInit ==
    /\ job_state \in Trackers
    /\ committed = job_state
    /\ last_update = [job_id |-> 0, kw |-> <<>>]
    /\ state_lock = None
    /\ pending = [job_id |-> 0, kw |-> <<>>]
    /\ fetched = {}
    /\ awaiting = {}
    /\ seq = 0
    /\ pq = {}
    /\ unfinished = 0
    /\ worker = 0
    /\ threads = [t \in ThreadIds |-> Idle]
    /\ inflight = {}
    /\ nid = 0
    /\ files = {}
    /\ handles = {}
    /\ io_log = <<>>
    /\ last_read = [job_id |-> 0, state |-> <<>>]
    /\ usage_records = <<>>
    /\ jobs_db = <<>>
    /\ now = 0
    /\ response = [status_code |-> 0, detail |-> "", headers |-> <<>>]
    /\ admitted = <<>>
    /\ app = "api"
    /\ jobs = <<>>
    /\ job_threads = <<>>
    /\ settings = DefaultSettings

\* what a step of the tracker's operations leaves alone
TrackerFrame ==
    /\ UNCHANGED <<settings, usage_records, jobs_db, now, response, admitted,
                   svars, last_update, fetched, awaiting>>
    /\ UNCHANGED <<seq, pq, unfinished, worker, threads, inflight, nid, files,
                   handles, io_log>>

\* a reader that does not wait for the lock
LockIgnored == TRUE

\* threading.Lock: the with block is entered when no one holds the lock
LockFree == state_lock = None

\* dict without key k
Without(d, k) == [x \in DOMAIN d \ {k} |-> d[x]]

\* _update, lines 76-77: the lock is taken; an absent id leaves nothing to
\* merge
UpdateAcquire(job_id, kw) ==
    /\ state_lock = None
    /\ state_lock' = "update"
    /\ pending' = [job_id |-> job_id,
                   kw |-> IF job_id \in DOMAIN job_state THEN kw ELSE <<>>]
    /\ UNCHANGED <<job_state, last_read, committed>>
    /\ TrackerFrame

\* _update, line 78: dict.update stores one more keyword
UpdateMerge(k) ==
    /\ state_lock = "update"
    /\ k \in DOMAIN pending.kw
    /\ job_state' = [job_state EXCEPT ![pending.job_id] =
                         DictUpdate(@, [x \in {k} |-> pending.kw[k]])]
    /\ pending' = [pending EXCEPT !.kw = Without(@, k)]
    /\ UNCHANGED <<state_lock, last_read, committed>>
    /\ TrackerFrame

\* _update, lines 76-78: the with block is left
UpdateRelease ==
    /\ state_lock = "update"
    /\ DOMAIN pending.kw = {}
    /\ state_lock' = None
    /\ committed' = job_state
    /\ UNCHANGED <<job_state, last_read, pending>>
    /\ TrackerFrame

\* get_state, lines 72-73: the entry is copied inside the with block
LockedGetState(job_id) ==
    /\ LockFree
    /\ last_read' = [job_id |-> job_id, state |-> GetState(job_state, job_id)]
    /\ UNCHANGED <<job_state, state_lock, pending, committed>>
    /\ TrackerFrame

LockNext ==
    \/ \E job_id \in UpdateIds, kw \in MergeKeywords : UpdateAcquire(job_id, kw)
    \/ \E k \in {"status", "error", "processed_frames", "result_path"} :
           UpdateMerge(k)
    \/ UpdateRelease
    \/ \E job_id \in UpdateIds : LockedGetState(job_id)

LockSpec == LockInit /\ [][LockNext]_vars

\* ------------------------------------------------------------- retention
\* the files of the storage directory that no writer holds open: each may
\* have been modified more than result_ttl_hours ago
Expirable ==
    {path \in files :
        \E j \in 1..nid :
            /\ path \in {result_path(j, ".mp4"), result_path(j, ".jpg")}
            /\ <<"writer", j>> \notin handles}

\* storage.cleanup_old_results and _periodic_cleanup: the files older than
\* the cutoff are unlinked; nothing else is touched
periodic_cleanup(old) ==
    /\ old \subseteq Expirable
    /\ files' = files \ old
    /\ UNCHANGED gvars
    /\ UNCHANGED <<seq, job_state, pq, unfinished, worker, threads, inflight,
                   nid, handles, io_log, last_read>>

CleanupStep == \E old \in SUBSET Expirable : periodic_cleanup(old)

RetentionNext == QueueNext \/ CleanupStep

\* the package as it runs: lifespan starts the worker and the cleanup task,
\* and both keep being scheduled
RetentionSpec ==
    /\ Init
    /\ [][RetentionNext]_vars
    /\ WF_vars(start) /\ WF_vars(WorkerStep) /\ WF_vars(EnqueueStep)
    /\ WF_vars(CleanupStep)

\* the service (either application) with the cleanup task of the package's
\* lifespan (api/__init__.py line 80) running beside the handlers
ExpiryNext ==
    \/ FetchNext
    \/ app = "api" /\ CleanupStep

ExpirySpec == FetchInit /\ [][ExpiryNext]_vars

\* ------------------------------------------------------------- resources
\* the threads that hold a dequeued job
Executing ==
    {t \in ThreadIds : threads[t].pc \in {"process", "open", "writer", "loop"}}

\* the handles no frame of the worker refers to any more: _process was left
\* without releasing them
Unreferenced ==
    {h \in handles : \A t \in Executing : threads[t].item.job_id # h[2]}

\* The interpreter finalizes a VideoCapture or VideoWriter object that has
\* become unreachable, which releases the handle; when it does so, and
\* whether it does, is up to the interpreter.
Finalizer(h) ==
    /\ h \in Unreferenced
    /\ handles' = handles \ {h}
    /\ UNCHANGED gvars
    /\ UNCHANGED <<seq, job_state, pq, unfinished, worker, threads, inflight,
                   nid, files, io_log, last_read>>

ResourceNext == QueueNext \/ \E h \in handles : Finalizer(h)

ResourceSpec == Init /\ [][ResourceNext]_vars

\* ---------------------------------------------------------- properties
Terminal(j) ==
    j \in DOMAIN job_state /\ job_state[j].status \in {"done", "failed"}

\* the jobs whose tracker status is queued, with the priority and sequence
\* number each holds
QueuedItems ==
    pq \cup {JobItem(e.priority, e.seq, e.job_id) :
                e \in {x \in inflight : x.pc = "put"}}
       \cup {threads[t].item : t \in {u \in ThreadIds : threads[u].pc = "process"}}

\* the jobs that hold a sequence number and have not been started
Unstarted ==
    pq \cup {JobItem(e.priority, e.seq, e.job_id) : e \in inflight}

\* thread t moves its job to processing in this step
Starts(t) == threads[t].pc = "process" /\ threads'[t].pc = "open"

\* C1: the worker never moves a priority-1 job to processing while a
\* priority-0 job that holds a smaller sequence number is still queued.
C1_PriorityBeforeStandard ==
    [][\A t \in ThreadIds :
          (Starts(t) /\ threads[t].item.priority = 1) =>
              ~\E x \in QueuedItems :
                  x.priority = 0 /\ x.seq < threads[t].item.seq]_vars

\* C2: no job is started while a job of the same priority that was assigned
\* a smaller sequence number has not been started.
C2_SequenceOrderWithinPriority ==
    [][\A t \in ThreadIds :
          Starts(t) =>
              ~\E x \in Unstarted :
                  /\ x.priority = threads[t].item.priority
                  /\ x.seq < threads[t].item.seq]_vars

Processing ==
    {j \in DOMAIN job_state : job_state[j].status = "processing"}

\* C3: at most one worker loop runs, at most one job is being executed, and
\* a worker that waits for the next job has left no job in processing.
C3_SingleWorker ==
    /\ Cardinality({t \in ThreadIds : IsAlive(t)}) <= 1
    /\ Cardinality(Executing) <= 1
    /\ Cardinality(Processing) <= 1
    /\ \A t \in ThreadIds : threads[t].pc = "get" => Processing = {}

\* start() was called again while the worker executes one job and another
\* job waits in the queue
C3_Witness ==
    /\ \E t \in ThreadIds : threads[t].pc = "loop" /\ StartGuard
    /\ Processing # {}
    /\ pq # {}

StatusSteps ==
    {<<"queued", "processing">>, <<"processing", "done">>,
     <<"processing", "failed">>}

\* C4: an entry is created queued, its status only moves queued ->
\* processing -> done or failed, and a done or failed status never changes.
C4_StatusPath ==
    [][\A j \in JobIds :
          /\ (j \notin DOMAIN job_state /\ j \in DOMAIN job_state') =>
                 job_state'[j].status = "queued"
          /\ j \in DOMAIN job_state =>
                 /\ j \in DOMAIN job_state'
                 /\ \/ job_state'[j].status = job_state[j].status
                    \/ <<job_state[j].status, job_state'[j].status>>
                           \in StatusSteps]_vars

\* one job has failed, and the worker is executing a later job past it
C4_Witness ==
    \E j, k \in DOMAIN job_state :
        /\ job_state[j].status = "failed"
        /\ job_state[k].status = "processing"
        /\ \E t \in ThreadIds : threads[t].pc = "loop"

\* C5: a job whose input opened and yielded N frames, none of which raised,
\* ends done with processed count N when N >= 1 and failed when N = 0.
C5_CountAndOutcome ==
    \A j \in DOMAIN job_state :
        io_log[j].ended = "eof" =>
            /\ io_log[j].yielded >= 1 =>
                   /\ job_state[j].status = "done"
                   /\ job_state[j].processed_frames = io_log[j].yielded
            /\ io_log[j].yielded = 0 => job_state[j].status = "failed"

\* one job ended after MaxFrames frames and another after none
C5_Witness ==
    \E j, k \in DOMAIN job_state :
        /\ io_log[j].ended = "eof" /\ io_log[j].yielded = MaxFrames
        /\ job_state[j].status = "done"
        /\ io_log[k].ended = "eof" /\ io_log[k].yielded = 0
        /\ job_state[k].status = "failed"

\* C6: of two consecutive status reads of a job, the later never shows a
\* smaller processed count.
C6_ProgressMonotonic ==
    [][(/\ last_read'.job_id = last_read.job_id
        /\ DOMAIN last_read.state # {}
        /\ DOMAIN last_read'.state # {}) =>
          last_read'.state.processed_frames
              >= last_read.state.processed_frames]_vars

\* the poller holds a read with one frame processed and the worker has
\* since counted the last frame: the next read is the later read
C6_Witness ==
    /\ DOMAIN last_read.state # {}
    /\ last_read.state.processed_frames = 1
    /\ job_state[last_read.job_id].status = "processing"
    /\ job_state[last_read.job_id].processed_frames = MaxFrames

\* C7: no status read shows done with a processed count that differs from
\* the total frame count.
C7_DoneMeansAllUnits ==
    (DOMAIN last_read.state # {} /\ last_read.state.status = "done") =>
        last_read.state.processed_frames = last_read.state.total_frames

\* C8: no failure ends the worker loop, and once a job has failed every job
\* in the tracker (queued then or enqueued later) reaches done or failed.
C8_FailureIsolation ==
    /\ [](\A t \in ThreadIds : threads[t].pc # "dead")
    /\ \A j \in JobIds :
          ((\E k \in DOMAIN job_state : job_state[k].status = "failed")
             /\ j \in DOMAIN job_state) ~> Terminal(j)

\* the first job failed on a raising frame and the worker is executing the
\* next one
C8_Witness ==
    /\ 1 \in DOMAIN job_state /\ job_state[1].error \in Exceptions
    /\ 2 \in DOMAIN job_state /\ job_state[2].status = "processing"

\* who a ledger row is counted for: the user id of a logged-in caller, the
\* session token with no user of an anonymous one
SameIdentity(row, c) ==
    IF c.user # NoUser
    THEN row.user_id = c.user.id
    ELSE row.user_id = None /\ row.session_id = c.cookie

\* the admissions of kind k the ledger holds for caller c in the UTC day of t
PriorAdmissions(table, t, c, k) ==
    BagSum(table, {r \in DOMAIN table :
                      /\ SameIdentity(r, c)
                      /\ r.job_type = k
                      /\ r.created_at \div TicksPerDay = t \div TicksPerDay})

\* the daily limit the settings give the tier of caller c for kind k
TierLimit(c, k) ==
    CASE c.user = NoUser /\ k = "image" -> settings.anon_image_swaps_per_day
      [] c.user = NoUser /\ k = "video" -> settings.anon_video_swaps_per_day
      [] c.user # NoUser /\ k = "image" -> settings.free_image_swaps_per_day
      [] c.user # NoUser /\ k = "video" -> settings.free_video_swaps_per_day

Trackable(c) == c.user # NoUser \/ c.cookie # None

\* C9: for a non-premium caller with a trackable identity the quota check
\* rejects when the count of prior admissions has reached the limit and
\* allows when it is below; it always allows a limit of -1 and a premium
\* caller.
C9_QuotaDecision ==
    \A c \in Callers, k \in JobTypes :
        LET rejected == check_usage_limit(c.cookie, c.user, k, settings,
                                          usage_records, now)
            count == PriorAdmissions(usage_records, now, c, k)
            limit == TierLimit(c, k)
        IN  /\ (~IsPremium(c.user) /\ Trackable(c)
                  /\ limit # -1 /\ count >= limit) => rejected
            /\ (~IsPremium(c.user) /\ Trackable(c) /\ count <= limit - 1)
                  => ~rejected
            /\ (IsPremium(c.user) \/ limit = -1) => ~rejected

\* a caller whose count equals its limit has just been rejected while another
\* caller of the same tier stands one below the limit, and a premium caller
\* has been admitted
C9_Witness ==
    /\ \E c \in Callers, k \in JobTypes :
          /\ ~IsPremium(c.user) /\ Trackable(c)
          /\ TierLimit(c, k) >= 1
          /\ PriorAdmissions(usage_records, now, c, k) = TierLimit(c, k)
          /\ response = QuotaExceeded(k, TierLimit(c, k))
    /\ \E c \in Callers, k \in JobTypes :
          /\ ~IsPremium(c.user) /\ Trackable(c)
          /\ PriorAdmissions(usage_records, now, c, k) = TierLimit(c, k) - 1
    /\ \E r \in DOMAIN usage_records : r.user_id = PremiumUser.id

\* a request that passes every check of its handler but the quota check
OtherwiseValid(req) ==
    /\ req.source = GoodImage
    /\ ~req.enhance
    /\ req.job_type = "image" => req.target = GoodImage /\ req.fault = "none"
    /\ req.job_type = "video" => req.target = max_video_bytes_free

\* the otherwise-valid submissions of the non-premium callers that have a
\* session or a login
QuotaRequests ==
    {req \in ImageRequests \cup VideoRequests :
        /\ OtherwiseValid(req)
        /\ ~IsPremium(req.user)
        /\ Trackable([user |-> req.user, cookie |-> req.cookie])}

\* the handler of the request's kind serves req in this step
Serves(req) ==
    IF req.job_type = "image" THEN swap(req) ELSE swap_video(req)

\* C10: an otherwise-valid submission of a non-premium caller with a session
\* and daily limit L is admitted, and raises the caller's ledger count by
\* one, while the count of the day is below L; from then on it is rejected
\* with the quota rejection and a retry-after of 24 hours.
C10_FirstLAdmitted ==
    [][\A req \in QuotaRequests :
          LET c == [user |-> req.user, cookie |-> req.cookie]
              k == req.job_type
              L == TierLimit(c, k)
              count == PriorAdmissions(usage_records, now, c, k)
          IN  (L >= 0 /\ Serves(req)) =>
                 IF count < L
                 THEN /\ response'.status_code = 200
                      /\ PriorAdmissions(usage_records', now', c, k)
                            = count + 1
                 ELSE /\ response'.status_code = 429
                      /\ response'.headers = [Retry_After |-> 24 * 60 * 60]
                      /\ usage_records' = usage_records]_vars

\* a caller with limit 2 has been admitted twice today and its third
\* submission has been rejected
C10_Witness ==
    \E c \in Callers, k \in JobTypes :
        /\ ~IsPremium(c.user) /\ Trackable(c)
        /\ TierLimit(c, k) = 2
        /\ PriorAdmissions(usage_records, now, c, k) = 2
        /\ response = QuotaExceeded(k, TierLimit(c, k))

\* the tier of a caller
TierOf(user) ==
    IF user = NoUser THEN "anonymous"
    ELSE IF user.tier = "premium" THEN "premium" ELSE "standard"

\* the video ceiling the settings give each tier
VideoCeiling ==
    [anonymous |-> max_video_bytes_free,
     standard |-> max_video_bytes_logged_in,
     premium |-> max_video_bytes_premium]

TierRequests == TierImageRequests \cup TierVideoRequests

CallerOf(req) == [user |-> req.user, cookie |-> req.cookie]

\* the length of the target of a request, and the ceiling it is held to
TargetSize(req) ==
    IF req.job_type = "image" THEN req.target.size ELSE req.target

TargetCeiling(req) ==
    IF req.job_type = "image" THEN max_image_bytes
    ELSE VideoCeiling[TierOf(req.user)]

OverCeiling(req) ==
    req.source.size > max_image_bytes \/ TargetSize(req) > TargetCeiling(req)

\* the caller has quota left for the kind: the quota check cannot reject
QuotaRemains(c, k) ==
    \/ IsPremium(c.user)
    \/ ~Trackable(c)
    \/ TierLimit(c, k) = -1
    \/ PriorAdmissions(usage_records, now, c, k) < TierLimit(c, k)

\* the rejections for payload size
SizeRejections ==
    {HTTPException(400, "Source file exceeds size limit", <<>>),
     HTTPException(400, "Target file exceeds size limit", <<>>)}
    \cup {VideoTooLarge(VideoCeiling[t]) : t \in DOMAIN VideoCeiling}

\* what the handler of the request's kind answers in the current state
Answer(req) ==
    IF req.job_type = "image"
    THEN swap_checks(req, settings, usage_records, now)
    ELSE swap_video_checks(req, settings, usage_records, now)

\* C11: with quota remaining, a submission whose source or target is over
\* the ceiling of the caller's tier is rejected for its size, and one whose
\* source is within and whose target is exactly at the ceiling is not.
C11_SizeCeiling ==
    \A req \in TierRequests :
        QuotaRemains(CallerOf(req), req.job_type) =>
            /\ OverCeiling(req) => Answer(req) \in SizeRejections
            /\ (~OverCeiling(req) /\ TargetSize(req) = TargetCeiling(req))
                   => Answer(req) \notin SizeRejections

\* a standard caller that has been admitted with a video and still has quota
\* has just been rejected for a video over the standard ceiling
C11_Witness ==
    LET c == [user |-> FreeUser, cookie |-> "s1"]
    IN  /\ response = VideoTooLarge(max_video_bytes_logged_in)
        /\ QuotaRemains(c, "video")
        /\ \E a \in DOMAIN admitted : a.user = FreeUser /\ a.job_type = "video"

\* C12: a submission that is over the ceiling of the caller's tier and whose
\* caller has no quota left is rejected for its size, not for the quota.
C12_SizeBeforeQuota ==
    \A req \in TierRequests :
        (OverCeiling(req) /\ ~QuotaRemains(CallerOf(req), req.job_type))
            => Answer(req) \in SizeRejections

NotEntitled ==
    HTTPException(403, "Face enhancement requires a premium subscription",
                  <<>>)

\* C13: a submission that asks for enhancement, from a caller with quota
\* remaining and with its payload within the ceiling, is rejected as not
\* entitled when the caller is anonymous or standard; no submission of a
\* premium caller is rejected as not entitled.
C13_EnhancementEntitlement ==
    \A req \in TierRequests :
        /\ (/\ req.enhance
            /\ TierOf(req.user) # "premium"
            /\ QuotaRemains(CallerOf(req), req.job_type)
            /\ ~OverCeiling(req)) => Answer(req) = NotEntitled
        /\ TierOf(req.user) = "premium" => Answer(req) # NotEntitled

\* a premium caller has been admitted with enhancement, and a caller has
\* just been rejected as not entitled while every caller has quota left
C13_Witness ==
    /\ response = NotEntitled
    /\ \A c \in Callers, k \in JobTypes : QuotaRemains(c, k)
    /\ \E j \in DOMAIN jobs_db :
          jobs_db[j].user_id = PremiumUser.id /\ jobs_db[j].options.enhance

\* the admissions of caller c for kind k at or after tick `since`: of the
\* user when c is logged in, else of the session of c with no user
AdmittedSince(c, k, since) ==
    BagSum(admitted, {a \in DOMAIN admitted :
                         /\ a.job_type = k
                         /\ a.at >= since
                         /\ IF c.user # NoUser
                            THEN a.user = c.user
                            ELSE a.user = NoUser /\ a.cookie = c.cookie})

\* the most recent UTC midnight
Midnight == now - (now % TicksPerDay)

Anonymous == [user |-> NoUser, cookie |-> None]

\* C14: no submission of an anonymous caller without session identifier is
\* rejected by the quota check, whatever it has been admitted with before.
C14_FailOpen ==
    \A req \in ImageRequests \cup VideoRequests :
        CallerOf(req) = Anonymous =>
            /\ ~check_usage_limit(req.cookie, req.user, req.job_type,
                                  settings, usage_records, now)
            /\ Answer(req).status_code # 429

\* the caller without session has been admitted today more often than the
\* anonymous limit allows, the last time just now
C14_Witness ==
    \E k \in JobTypes :
        /\ TierLimit(Anonymous, k) >= 1
        /\ AdmittedSince(Anonymous, k, Midnight) > TierLimit(Anonymous, k)
        /\ response = Ok

\* a video submission of user u that is valid but for the length ts of its
\* target
VideoOfSize(u, ts) ==
    [job_type |-> "video", user |-> u, cookie |-> "s1", source |-> GoodImage,
     target |-> ts, enhance |-> FALSE, many_faces |-> FALSE]

\* the largest target the video handler accepts from user u
LargestAccepted(u) ==
    LET S == {ts \in VideoUploads : Answer(VideoOfSize(u, ts)) = Ok}
    IN  IF S = {} THEN 0 ELSE CHOOSE x \in S : \A y \in S : y <= x

\* C15: every admitted job has priority 0 when its caller is a premium user
\* and priority 1 otherwise, in its durable record and in the queue; and
\* while the callers have quota, the largest video accepted from an
\* anonymous caller is smaller than from a standard one, and that is smaller
\* than from a premium one.
C15_PriorityAndCeiling ==
    /\ \A j \in DOMAIN jobs_db :
          jobs_db[j].priority =
              IF jobs_db[j].user_id = PremiumUser.id THEN 0 ELSE 1
    /\ \A x \in pq : x.priority = jobs_db[x.job_id].priority
    /\ (\A u \in Users : QuotaRemains([user |-> u, cookie |-> "s1"], "video"))
          => /\ 0 < LargestAccepted(NoUser)
             /\ LargestAccepted(NoUser) < LargestAccepted(FreeUser)
             /\ LargestAccepted(FreeUser) < LargestAccepted(PremiumUser)

\* a premium and a standard caller each have a video in the queue
C15_Witness ==
    \E x, y \in pq :
        /\ x.priority = 0 /\ jobs_db[x.job_id].user_id = PremiumUser.id
        /\ y.priority = 1 /\ jobs_db[y.job_id].user_id = FreeUser.id

\* C16: the count the quota check uses for a caller and a kind is the number
\* of admissions of that identity and kind since the most recent UTC
\* midnight, and an otherwise-valid submission is rejected for quota exactly
\* when that number has reached the limit.
C16_CountWindow ==
    /\ \A c \in Callers, k \in JobTypes :
          (Trackable(c) /\ TierOf(c.user) # "premium") =>
              Count(c.cookie, c.user, k, usage_records, now)
                  = AdmittedSince(c, k, Midnight)
    /\ \A req \in QuotaRequests :
          LET c == CallerOf(req)
              k == req.job_type
          IN  Answer(req).status_code = 429 <=>
                  /\ TierLimit(c, k) # -1
                  /\ AdmittedSince(c, k, Midnight) >= TierLimit(c, k)

\* a caller that had reached its limit before midnight has been admitted
\* again after it
C16_Witness ==
    \E c \in Callers, k \in JobTypes :
        /\ Trackable(c) /\ TierOf(c.user) # "premium"
        /\ TierLimit(c, k) >= 1
        /\ Midnight > 0
        /\ AdmittedSince(c, k, 0) - AdmittedSince(c, k, Midnight)
               = TierLimit(c, k)
        /\ AdmittedSince(c, k, Midnight) >= 1
        /\ response = Ok

\* the answer is a rejection for quota, payload size or entitlement
AdmissionRejection(r) ==
    r.status_code = 429 \/ r \in SizeRejections \/ r = NotEntitled

\* C17: a submission answered with a rejection for quota, payload size or
\* entitlement leaves the tracker, the queue, the sequence counter, the
\* jobs table and the usage ledger as they were.
C17_RejectionCreatesNothing ==
    [][AdmissionRejection(response') =>
          UNCHANGED <<job_state, pq, seq, unfinished, jobs_db, usage_records,
                      nid, files>>]_vars

\* after one admission of each kind, a submission has been rejected for quota
C17_Witness ==
    /\ response.status_code = 429
    /\ \E i, v \in DOMAIN jobs_db :
          jobs_db[i].job_type = "image" /\ jobs_db[v].job_type = "video"
    /\ pq # {}

\* the submit that created job j returns successfully in this step
ImageSubmitReturns(j) ==
    \E req \in ServiceImageRequests :
        swap(req) /\ response'.status_code = 200 /\ nid = j - 1 /\ nid' = j

VideoSubmitReturns(j) ==
    \E e \in inflight : e.job_id = j /\ swap_video_end(e)

\* after the step job j is in the tracker with status queued and its item is
\* in the queue
RegisteredAndQueued(j) ==
    /\ j \in DOMAIN job_state'
    /\ job_state'[j].status = "queued"
    /\ \E x \in pq' : x.job_id = j

\* the worker takes an item from the queue in this step
Dequeues(t) == threads[t].pc = "get" /\ threads'[t].pc = "process"

QueryIds == 0..(MaxAdmissions + 1)

\* answer a reports the status, counts and error of record d
Reports(a, d) ==
    /\ a.status_code = 200
    /\ a.body.status = d.status
    /\ a.body.total_frames = d.total_frames
    /\ a.body.processed_frames = d.processed_frames
    /\ a.body.error = d.error

\* C19: a status query answers with the tracker's record when the tracker
\* holds the id, else with the record of the jobs table, and with not-found
\* only when neither holds it; an admitted job is never reported not-found.
C19_StatusFallback ==
    \A j \in QueryIds :
        LET a == job_status_answer(j, job_state, jobs_db)
        IN  /\ j \in DOMAIN job_state => Reports(a, job_state[j])
            /\ (j \notin DOMAIN job_state /\ j \in DOMAIN jobs_db)
                   => Reports(a, jobs_db[j])
            /\ a = NotFound
                   <=> (j \notin DOMAIN job_state /\ j \notin DOMAIN jobs_db)
            /\ j \in 1..nid => a # NotFound

\* a query has been answered from the jobs table for a video that is
\* committed and not yet in the tracker
C19_Witness ==
    \E j \in PolledJobs :
        /\ j \in DOMAIN jobs_db /\ jobs_db[j].job_type = "video"
        /\ j \notin DOMAIN job_state
        /\ response = Reply(StatusView(jobs_db[j]))

\* the status the running service holds for job j: the package asks its
\* tracker and then its jobs table, the standalone service its dict; None
\* when the id is unknown
StatusHeld(j) ==
    IF app = "standalone"
    THEN IF j \in DOMAIN jobs THEN jobs[j].status ELSE None
    ELSE IF j \in DOMAIN job_state THEN job_state[j].status
    ELSE IF j \in DOMAIN jobs_db THEN jobs_db[j].status
    ELSE None

\* what a result fetch for job j is answered with in this state
FetchAnswer(j) ==
    IF app = "standalone"
    THEN standalone_job_download_answer(j, jobs, files)
    ELSE job_download_answer(j, job_state, jobs_db, files)

\* the answer carries the bytes of a result file
ReturnsBytes(a) == a.status_code = 200 /\ "body" \in DOMAIN a

\* C20: a result fetch returns result bytes only if the status of the job at
\* the time of the request is done; for a job that is queued, processing or
\* failed the fetch is rejected and returns no bytes; for an unknown id it
\* reports not-found.
C20_FetchOnlyWhenDone ==
    \A j \in QueryIds :
        LET a == FetchAnswer(j)
        IN  /\ ReturnsBytes(a) => StatusHeld(j) = "done"
            /\ StatusHeld(j) \in {"queued", "processing", "failed"}
                   => /\ a = NotDone(StatusHeld(j))
                      /\ ~ReturnsBytes(a)
            /\ StatusHeld(j) = None => a = NotFound

\* the package has answered a fetch with the result file of a video job that
\* the worker finished
C20_Witness ==
    \E j \in PolledJobs :
        /\ app = "api"
        /\ j \in DOMAIN job_state /\ job_state[j].status = "done"
        /\ response = FileResponse(result_path(j, ".mp4"))

\* the standalone service has answered a fetch with the result of a job and
\* dropped the job
StandaloneFetched ==
    \E j \in QueryJobs :
        /\ app = "standalone"
        /\ j \notin DOMAIN jobs /\ j \in DOMAIN job_threads
        /\ response = StreamingResponse(tmp_out(j))

\* what a status query for job j is answered with in this state
StatusAnswer(j) ==
    IF app = "standalone"
    THEN standalone_job_status_answer(j, jobs)
    ELSE job_status_answer(j, job_state, jobs_db)

\* the status answer reports one of the given statuses
AnswersStatus(a, statuses) == a # NotFound /\ a.body.status \in statuses

\* C21: once a fetch has returned the result of a job, a status query for
\* the same id is answered not-found, or done while a fetch of the result
\* still returns its bytes; it is never answered queued or processing.
C21_StatusAfterFetch ==
    \A j \in fetched :
        LET a == StatusAnswer(j)
        IN  /\ \/ a = NotFound
               \/ AnswersStatus(a, {"done"}) /\ ReturnsBytes(FetchAnswer(j))
            /\ ~AnswersStatus(a, {"queued", "processing"})

\* the part of C21 about the status alone: not-found or done after a fetch
C21_NeverBackInProgress ==
    \A j \in fetched :
        StatusAnswer(j) = NotFound \/ AnswersStatus(StatusAnswer(j), {"done"})

\* a status query was answered for a job whose result had been fetched
C21_Queried ==
    \E j \in fetched : response = StatusAnswer(j)

\* C22: an update addressed to a job id that is not in the tracker leaves
\* the tracker exactly as it was: no entry is created for that id and no
\* other entry changes (the guard of line 77 is the only path, so the call
\* returns normally).
C22_UpdateOfAbsentId ==
    [][\A j \in UpdateIds, kw \in UpdateKeywords :
          (j \notin DOMAIN job_state /\ update(j, kw))
              => /\ job_state' = job_state
                 /\ j \notin DOMAIN job_state']_vars

\* an update was addressed to an id the tracker does not hold while it holds
\* another job
C22_Witness ==
    /\ last_update.kw # <<>>
    /\ last_update.job_id \notin DOMAIN job_state
    /\ job_state # <<>>

\* C23: every record the tracker's get returns equals the record of the job
\* as it stood between two whole updates; an update of several fields is
\* never seen partly applied, however reader and worker interleave.
C23_NoTornRead ==
    [][\A j \in UpdateIds :
          (last_read' # last_read /\ last_read'.job_id = j)
              => last_read'.state = GetState(committed, j)]_vars

\* a reader has got the record of a job after a three-field update of it
\* and while the next update of the same job waits to merge its fields
C23_Witness ==
    \E j \in JobIds :
        /\ last_read.job_id = j
        /\ last_read.state # <<>>
        /\ last_read.state.status = "done"
        /\ state_lock = "update" /\ pending.job_id = j
        /\ DOMAIN pending.kw = {"status", "error"}

\* the jobs that hold a sequence number: inside enqueue, in the queue, or
\* with the worker
Holders == Unstarted \cup {threads[t].item : t \in Executing}

\* this step admits a job: an enqueue call takes its sequence number
Admits(e) == e \in inflight' \ inflight /\ e.pc = "state"

\* C24: under any number of concurrent enqueue calls every admitted job is
\* assigned one sequence number, no two jobs share a number, and each number
\* assigned is greater than every number assigned before it, whatever the
\* priority.
C24_SequenceAssignedOnce ==
    /\ [](\A x, y \in Holders :
             /\ (x.job_id = y.job_id) <=> (x.seq = y.seq)
             /\ x.seq \in 1..seq)
    /\ [][/\ \A e \in inflight' :
                 Admits(e) => /\ e.seq = seq'
                              /\ seq' > seq
                              /\ \A x \in Holders : x.seq < e.seq
          /\ seq' # seq => \E e \in inflight' : Admits(e)
          /\ \A x \in Holders, y \in Holders' :
                 x.job_id = y.job_id => x.seq = y.seq]_vars

\* as many enqueue calls as may overlap are inside enqueue at once, of both
\* priorities, each with its number
C24_Witness ==
    /\ Cardinality(inflight) = MaxAdmitters
    /\ \E e, f \in inflight : e.priority # f.priority /\ e.seq < f.seq
    /\ \A e \in inflight : e.pc = "state"

\* C25: sequence assignment and insertion into the priority queue form one
\* atomic admission step: while a job holds a sequence number and is not yet
\* inserted, no other enqueue is assigned a (larger) number and the worker
\* performs no dequeue.
C25_AtomicAdmission ==
    [][((\E e \in inflight' : Admits(e)) \/ (\E t \in ThreadIds : Dequeues(t)))
          => inflight = {}]_vars

\* the items of job j that wait in the queue or are held by a thread
ItemsOf(j) ==
    {x \in pq : x.job_id = j}
        \cup {threads[t].item : t \in {u \in Executing :
                                         threads[u].item.job_id = j}}

\* C26: every admitted job is dequeued and started by the worker at most
\* once, and exactly once when the worker keeps running; a job that failed
\* is never put back into the queue or executed again.
C26_StartedExactlyOnce ==
    /\ [](\A j \in JobIds : Cardinality(ItemsOf(j)) <= 1)
    /\ [][/\ \A t \in ThreadIds :
                 Dequeues(t) =>
                     /\ job_state[threads'[t].item.job_id].status = "queued"
                     /\ threads'[t].item \in pq \ pq'
          /\ \A x \in pq' \ pq :
                 /\ \E e \in inflight \ inflight' : e.job_id = x.job_id
                 /\ job_state[x.job_id].status = "queued"
          /\ \A j \in DOMAIN job_state :
                 job_state[j].status # "queued"
                     => job_state'[j].status # "queued"]_vars
    /\ \A j \in JobIds :
           (j \in DOMAIN job_state)
               ~> (j \in DOMAIN job_state /\ job_state[j].status # "queued")

\* a job has failed, the worker waits for the next job, and neither the
\* queue nor the worker holds the failed job
C26_Witness ==
    \E j \in DOMAIN job_state :
        /\ job_state[j].status = "failed"
        /\ ItemsOf(j) = {}
        /\ \E t \in ThreadIds : threads[t].pc = "get"
        /\ pq # {}

\* thread t holds a job in this step and still holds it, unfinished, after it
Keeps(t) ==
    /\ threads'[t].item = threads[t].item
    /\ threads'[t].pc \in {"process", "open", "writer", "loop"}

\* thread t goes back to wait for the next job, its job terminal
Completes(t) ==
    /\ threads'[t].pc = "get"
    /\ job_state'[threads[t].item.job_id].status \in {"done", "failed"}

C28_TerminalEntriesReaped ==
    \A j \in JobIds : Terminal(j) ~> (j \notin DOMAIN job_state)

\* the jobs a thread of the worker is executing
Executed == {threads[t].item.job_id : t \in Executing}

\* C29: for every job that has reached a terminal status, by any path, the
\* uploaded temporary input file is deleted once the worker has left the
\* job, before it takes the next one.
C29_TempInputReleased ==
    \A j \in DOMAIN job_state \ Executed :
        Terminal(j) => tmp_in(j) \notin files

\* C30: on every exit path of processing a job, every reader and writer
\* handle that was opened is released when the worker is back in its loop:
\* an open handle belongs to a job that is being executed.
C30_HandlesReleased ==
    \A h \in handles : h[2] \in Executed

\* C31: when the transform raises on a frame of a job, the job becomes
\* failed with the text of the exception as its error, its processed count
\* is the number of frames completed before that frame, the worker leaves
\* the job, and from then on the job's entry never changes: no further frame
\* of it is read and it never becomes done.
C31_TransformFailureIsFatal ==
    /\ [][\A t \in ThreadIds, exc \in Exceptions :
              FrameRaises(t, exc) =>
                  LET j == threads[t].item.job_id
                  IN  /\ job_state'[j].status = "failed"
                      /\ job_state'[j].error = exc
                      /\ job_state'[j].processed_frames = threads[t].processed
                      /\ threads'[t] = Waiting]_vars
    /\ [][\A j \in DOMAIN job_state :
              io_log[j].ended = "raised" =>
                  /\ job_state'[j] = job_state[j]
                  /\ io_log'[j] = io_log[j]
                  /\ j \notin {threads'[t].item.job_id : t \in ThreadIds}]_vars
    /\ [](\A j \in DOMAIN job_state :
              io_log[j].ended = "raised" =>
                  /\ job_state[j].status = "failed"
                  /\ job_state[j].processed_frames = io_log[j].yielded - 1)

\* the transform raised on the second frame of a job, and the worker has
\* since taken the next job
C31_Witness ==
    \E j \in DOMAIN job_state, t \in Executing :
        /\ io_log[j].ended = "raised"
        /\ io_log[j].yielded = 2
        /\ job_state[j].processed_frames = 1
        /\ threads[t].item.job_id # j
        /\ threads[t].pc = "loop"

\* the record d carries an error only when failed, and a result reference
\* exactly when done
ErrorAndResultMatchStatus(d) ==
    /\ d.error # None => d.status = "failed"
    /\ ("result_path" \in DOMAIN d /\ d.result_path # None)
           <=> d.status = "done"

\* C32: in every record of the tracker, and in every copy get_state has
\* handed to a reader, the error field is non-null only if the status is
\* failed, and a result reference is present if and only if the status is
\* done.
C32_FieldsMatchStatus ==
    /\ \A j \in DOMAIN job_state : ErrorAndResultMatchStatus(job_state[j])
    /\ last_read.state # <<>> => ErrorAndResultMatchStatus(last_read.state)

\* a reader holds the record of a done job while the tracker also holds a
\* failed job
C32_Witness ==
    /\ last_read.state # <<>>
    /\ last_read.state.status = "done"
    /\ \E j \in DOMAIN job_state :
           job_state[j].status = "failed" /\ job_state[j].error # None

\* the worker has ended the processing of job j
Finished(j) == j \in DOMAIN io_log /\ io_log[j].ended # ""

\* C33: the terminal status of a job is in its durable record: a status
\* query that falls back to the jobs table for a job the worker has
\* finished (its tracker entry gone) reports done or failed, never queued
\* or processing.
C33_TerminalStatusDurable ==
    \A j \in DOMAIN jobs_db :
        (Finished(j) /\ j \notin DOMAIN job_state)
            => job_status_answer(j, job_state, jobs_db).body.status
                   \in {"done", "failed"}

C35_LimitUnderConcurrency ==
    \A c \in Callers, k \in JobTypes :
        (Trackable(c) /\ TierOf(c.user) # "premium" /\ TierLimit(c, k) # -1)
            => AdmittedSince(c, k, Midnight) <= TierLimit(c, k)

\* C36: every item in the priority queue belongs to a job whose tracker
\* entry exists with status queued, so no processing, done or failed job is
\* in the queue; a dequeued job has its entry, and the worker's first update
\* of it takes effect: the entry goes from queued to processing.
C36_QueuedItemsAreQueued ==
    /\ [](/\ \A x \in pq :
                 /\ x.job_id \in DOMAIN job_state
                 /\ job_state[x.job_id].status = "queued"
           /\ \A j \in DOMAIN job_state :
                 job_state[j].status \in {"processing", "done", "failed"}
                     => \A y \in pq : y.job_id # j
           /\ \A t \in Executing :
                 threads[t].item.job_id \in DOMAIN job_state)
    /\ [][\A t \in ThreadIds :
              Begin(t) =>
                  LET j == threads[t].item.job_id
                  IN  /\ j \in DOMAIN job_state
                      /\ job_state[j].status = "queued"
                      /\ job_state'[j].status = "processing"]_vars

\* a job waits in the queue with its entry queued while the worker has made
\* its first update of another job
C36_Witness ==
    /\ \E x \in pq : job_state[x.job_id].status = "queued"
    /\ \E j \in DOMAIN job_state : job_state[j].status = "processing"
    /\ \E t \in ThreadIds : threads[t].pc = "open"

\* C37: whenever a status query reports a job as done, a fetch of its
\* result returns the bytes of the result file, also after the periodic
\* cleanup of result files has run.
C37_DoneResultFetchable ==
    \A j \in QueryIds :
        AnswersStatus(StatusAnswer(j), {"done"})
            => ReturnsBytes(FetchAnswer(j))

\* C38: a step changes the tracker entry of a job only if a thread of the
\* worker is executing that job, and then it changes no other entry; a step
\* adds an entry only for the job an enqueue call is storing, and then it
\* changes no entry that was there.
C38_OtherJobsUntouched ==
    [][/\ \A j \in DOMAIN job_state :
              job_state'[j] # job_state[j] =>
                  /\ j \in Executed
                  /\ DOMAIN job_state' = DOMAIN job_state
                  /\ \A i \in DOMAIN job_state \ {j} :
                         job_state'[i] = job_state[i]
       /\ \A j \in DOMAIN job_state' \ DOMAIN job_state :
              /\ \E e \in inflight : e.job_id = j /\ e.pc = "state"
              /\ DOMAIN job_state' = DOMAIN job_state \cup {j}
              /\ \A i \in DOMAIN job_state : job_state'[i] = job_state[i]
       /\ DOMAIN job_state \subseteq DOMAIN job_state']_vars

\* the worker is two frames into a job while the entry of a job enqueued
\* meanwhile stands as enqueue stored it
C38_Witness ==
    \E t \in ThreadIds, j \in DOMAIN job_state :
        /\ threads[t].pc = "loop"
        /\ threads[t].processed = 2
        /\ j > threads[t].item.job_id
        /\ job_state[j] = QueuedState

\* the standalone service has given out the result of job j, or holds it
Consumable(j) ==
    j \in fetched \/ (j \in DOMAIN jobs /\ jobs[j].status = "done")

\* C39: in the standalone service, however the downloads of one done job
\* follow each other, a download of it returns the bytes of the result or
\* reports not-found, and never reports that the result file is missing:
\* bytes while the job is in the dict, not-found once a download has popped
\* it.
C39_DownloadNeverFindsFileMissing ==
    \A j \in QueryJobs :
        (app = "standalone" /\ Consumable(j)) =>
            LET a == standalone_job_download_answer(j, jobs, files)
            IN  /\ a # FileMissing
                /\ a \in {StreamingResponse(tmp_out(j)), NotFound}
                /\ a = NotFound <=> j \in fetched

\* a download of a job whose result was given out before has been answered
\* not-found
C39_Witness ==
    \E j \in fetched :
        /\ app = "standalone"
        /\ response = standalone_job_download_answer(j, jobs, files)
        /\ response = NotFound
        /\ tmp_out(j) \notin files

\* C40: in the standalone service a status answer is the record of the job
\* as it stood at one instant, whatever the job's thread does meanwhile: the
\* answer shows an error exactly when it shows the status failed, and in
\* particular never failed together with a null error.
C40_StatusIsOneSnapshot ==
    ("body" \in DOMAIN response /\ "status" \in DOMAIN response.body) =>
        (response.body.status = "failed" <=> response.body.error # None)

====
